---- MODULE Spec2Model ----
(***************************************************************************)
(* A model of main.py, the LINE webhook relay: the dedup guard             *)
(* (_dedup_seen_db with its in-memory fallback _dedup_seen), the per-user  *)
(* throttle guard (_user_throttled), the webhook intake (webhook) and the  *)
(* delivery pipeline with its fallback chain (process_with_adk_agent).     *)
(*                                                                         *)
(* The specifications share the definitions:                               *)
(*   SpecDedup, SpecThrottle  a guard called directly, as a unit test would;*)
(*   Spec          the webhook intake, its guards and the dispatched tasks;*)
(*   SpecPipeline  one dispatched pipeline, statement by statement.        *)
(*                                                                         *)
(* Time is the integer number of seconds read from time.time(); the calls  *)
(* to time.time() inside one guard read the same second.                   *)
(***************************************************************************)
EXTENDS Integers, Sequences, FiniteSets, TLC

VARIABLES
    now,            \* time.time(), in seconds
    ticks,          \* how many times the clock has advanced
    dedup,          \* the rows of table dedup(key PRIMARY KEY, ts): key -> ts
    DEDUP_CACHE,    \* main.py:171, key -> ts
    RUNNING_USERS,  \* main.py:283, user_id -> ts
    dedupLog,       \* SpecDedup: the dedup checks made, in order
    throttleLog,    \* SpecThrottle: the throttle checks made, in order
    RUNNER,         \* main.py:166, the lazily created runner
    tasks,          \* the tasks made by asyncio.create_task, in order
    calls,          \* how many webhook calls have been answered
    response,       \* the response to the latest webhook call
    intakeLog,      \* what the intake did with each event, in order
    body_events,    \* main.py:429, what kind of value events was in the latest call
    handlers,       \* main.py:424, the calls that reached await request.json()
    args,           \* process_with_adk_agent: message_text, user_id, reply_token
    pc,             \* process_with_adk_agent: the statement it is at
    prepared_text,  \* main.py:539/543, the prompt handed to the backend
    final_text,     \* main.py:552, the backend's final text, as tokens
    tool_done,      \* main.py:553
    resource_exhausted, \* main.py:554
    stream_exc,     \* the exception that ended the backend stream, if any
    streamed,       \* how many backend events the stream loop has consumed
    msg_obj,        \* main.py:608, the parsed message object
    chain,          \* the fallback stages entered and their outbound calls
    contextLog,     \* the calls of build_memory_context made, in order
    memoryLog,      \* the calls of memory_add_message made, in order
    memory          \* the rows of table memory(user_id, role, text, ts), by ts

guardLogs == <<dedupLog, throttleLog>>

intakeVars == <<RUNNER, tasks, calls, response, intakeLog, body_events,
               handlers>>

pipeVars == <<args, pc, prepared_text, final_text, tool_done,
              resource_exhausted, stream_exc, streamed, msg_obj, chain,
              contextLog, memory, memoryLog>>

vars == <<now, ticks, dedup, DEDUP_CACHE, RUNNING_USERS, dedupLog, throttleLog,
          RUNNER, tasks, calls, response, intakeLog, body_events, handlers,
          args, pc, prepared_text, final_text, tool_done,
          resource_exhausted, stream_exc, streamed, msg_obj, chain,
          contextLog, memory, memoryLog>>

----------------------------------------------------------------------------
(* Program constants.                                                      *)

DEDUP_TTL_SECONDS == 300

RUNNING_TTL_SECONDS == 12

(* Bounds of the model.                                                    *)

MaxTicks == 2

MaxChecks == 4

(* The clock advances by one second, by a throttle window or by a dedup    *)
(* TTL, so that both sides of each window boundary are reached.            *)
Steps == {1, RUNNING_TTL_SECONDS, DEDUP_TTL_SECONDS}

GuardKeys == {"e1", "e2"}

Users == {"u1", "u2"}

----------------------------------------------------------------------------
(* Python dicts and the rows of a keyed table, as functions whose domain   *)
(* is the set of keys present.                                             *)

EmptyMap == [k \in {} |-> 0]

Put(m, k, v) == [j \in (DOMAIN m) \cup {k} |-> IF j = k THEN v ELSE m[j]]

(* [k for k, ts in m.items() if (t - ts) > ttl] removed from m.            *)
DropExpired(m, t, ttl) ==
    [k \in {j \in DOMAIN m : ~((t - m[j]) > ttl)} |-> m[k]]

DeleteBeforeInclusive(rows, cutoff) ==
    [k \in {j \in DOMAIN rows : ~(rows[j] <= cutoff)} |-> rows[k]]

(* DELETE FROM dedup WHERE ts < cutoff.                                    *)
DeleteBefore(rows, cutoff) ==
    [k \in {j \in DOMAIN rows : ~(rows[j] < cutoff)} |-> rows[k]]

----------------------------------------------------------------------------
(* _user_throttled(user_id): the result and RUNNING_USERS afterwards.      *)

UserThrottledRefreshing(running, user_id, t) ==
    LET live == DropExpired(running, t, RUNNING_TTL_SECONDS)
    IN  IF user_id \in DOMAIN live /\ (t - live[user_id]) <= RUNNING_TTL_SECONDS
        THEN [ret |-> TRUE, running |-> Put(live, user_id, t)]
        ELSE [ret |-> FALSE, running |-> Put(live, user_id, t)]

UserThrottledForgetful(running, user_id, t) ==
    LET live == DropExpired(running, t, RUNNING_TTL_SECONDS)
    IN  IF user_id \in DOMAIN live /\ (t - live[user_id]) <= RUNNING_TTL_SECONDS
        THEN [ret |-> TRUE, running |-> live]
        ELSE [ret |-> FALSE, running |-> live]

UserThrottledStrict(running, user_id, t) ==
    LET live == DropExpired(running, t, RUNNING_TTL_SECONDS)
    IN  IF user_id \in DOMAIN live /\ (t - live[user_id]) < RUNNING_TTL_SECONDS
        THEN [ret |-> TRUE, running |-> live]
        ELSE [ret |-> FALSE, running |-> Put(live, user_id, t)]

_user_throttled(running, user_id, t) ==
    LET live == DropExpired(running, t, RUNNING_TTL_SECONDS)
    IN  IF user_id \in DOMAIN live /\ (t - live[user_id]) <= RUNNING_TTL_SECONDS
        THEN [ret |-> TRUE, running |-> live]
        ELSE [ret |-> FALSE, running |-> Put(live, user_id, t)]

(* _dedup_seen(key): the result and DEDUP_CACHE afterwards.                *)

DedupSeenStrict(cache, key, t) ==
    LET live == DropExpired(cache, t, DEDUP_TTL_SECONDS)
    IN  IF key \in DOMAIN live /\ (t - live[key]) < DEDUP_TTL_SECONDS
        THEN [ret |-> TRUE, cache |-> live]
        ELSE [ret |-> FALSE, cache |-> Put(live, key, t)]

_dedup_seen(cache, key, t) ==
    LET live == DropExpired(cache, t, DEDUP_TTL_SECONDS)
    IN  IF key \in DOMAIN live /\ (t - live[key]) <= DEDUP_TTL_SECONDS
        THEN [ret |-> TRUE, cache |-> live]
        ELSE [ret |-> FALSE, cache |-> Put(live, key, t)]

(* _dedup_seen_db(key): the result, the committed rows of the table and    *)
(* DEDUP_CACHE afterwards.  dbFails is the sqlite3 call raising: the       *)
(* transaction of "with conn:" is rolled back, the rows stay as they were  *)
(* and the check is answered by _dedup_seen.                               *)

DedupSeenDbForgetful(rows, cache, key, t, dbFails) ==
    IF dbFails
    THEN LET r == _dedup_seen(cache, key, t)
         IN  [ret |-> r.ret, rows |-> rows, cache |-> r.cache, store |-> "mem"]
    ELSE LET kept == DeleteBefore(rows, t - DEDUP_TTL_SECONDS)
         IN  [ret |-> FALSE, rows |-> Put(kept, key, t), cache |-> cache,
              store |-> "db"]

\* a fallback that empties the table it could not reach
DedupSeenDbLosingRows(rows, cache, key, t, dbFails) ==
    IF dbFails
    THEN LET r == _dedup_seen(cache, key, t)
         IN  [ret |-> r.ret, rows |-> EmptyMap, cache |-> r.cache,
              store |-> "mem"]
    ELSE LET kept == DeleteBefore(rows, t - DEDUP_TTL_SECONDS)
         IN  IF key \in DOMAIN kept
             THEN [ret |-> TRUE, rows |-> kept, cache |-> cache, store |-> "db"]
             ELSE [ret |-> FALSE, rows |-> Put(kept, key, t), cache |-> cache,
                   store |-> "db"]

DedupSeenDbRefreshing(rows, cache, key, t, dbFails) ==
    IF dbFails
    THEN LET r == _dedup_seen(cache, key, t)
         IN  [ret |-> r.ret, rows |-> rows, cache |-> r.cache, store |-> "mem"]
    ELSE LET kept == DeleteBefore(rows, t - DEDUP_TTL_SECONDS)
         IN  [ret |-> key \in DOMAIN kept /\ (t - kept[key]) <= DEDUP_TTL_SECONDS,
              rows |-> Put(kept, key, t), cache |-> cache, store |-> "db"]

_dedup_seen_db(rows, cache, key, t, dbFails) ==
    IF dbFails
    THEN LET r == _dedup_seen(cache, key, t)
         IN  [ret |-> r.ret, rows |-> rows, cache |-> r.cache, store |-> "mem"]
    ELSE LET kept == DeleteBefore(rows, t - DEDUP_TTL_SECONDS)
         IN  IF key \notin DOMAIN kept
             THEN \* INSERT succeeds
                  [ret |-> FALSE, rows |-> Put(kept, key, t), cache |-> cache,
                   store |-> "db"]
             ELSE \* sqlite3.IntegrityError: the row exists
                  IF (t - kept[key]) <= DEDUP_TTL_SECONDS
                  THEN [ret |-> TRUE, rows |-> kept, cache |-> cache,
                        store |-> "db"]
                  ELSE \* REPLACE INTO
                       [ret |-> FALSE, rows |-> Put(kept, key, t),
                        cache |-> cache, store |-> "db"]

----------------------------------------------------------------------------
(* JSON values, as json.loads and request.json() build them: None, a str,  *)
(* a number, a dict (a function from its keys) or a list.  Every value is  *)
(* a record of the same shape, so that any two can be compared.            *)

EmptyObj == [k \in {} |-> 0]

JNull == [kind |-> "null", s |-> "", o |-> EmptyObj, l |-> << >>]

JStr(str) == [kind |-> "str", s |-> str, o |-> EmptyObj, l |-> << >>]

\* a number, written as its digits
JNum(digits) == [kind |-> "num", s |-> digits, o |-> EmptyObj, l |-> << >>]

JObj(fields) == [kind |-> "obj", s |-> "", o |-> fields, l |-> << >>]

JList(items) == [kind |-> "list", s |-> "", o |-> EmptyObj, l |-> items]

JTrue == [kind |-> "bool", s |-> "True", o |-> EmptyObj, l |-> << >>]

\* a local name that no statement has bound yet
Unbound == [kind |-> "unbound", s |-> "", o |-> EmptyObj, l |-> << >>]

\* bool(v)
Truthy(v) ==
    CASE v.kind = "str" -> v.s # ""
      [] v.kind = "num" -> v.s # "0"
      [] v.kind = "bool" -> v.s = "True"
      [] v.kind = "obj" -> DOMAIN v.o # {}
      [] v.kind = "list" -> v.l # << >>
      [] OTHER -> FALSE

\* d.get(k)
Get(d, k) == IF k \in DOMAIN d.o THEN d.o[k] ELSE JNull

\* an exception raised by the backend stream: an McpError or not, and str(e)
Exception(mcp, str) == [raised |-> TRUE, mcp |-> mcp, str |-> str]

NoException == [raised |-> FALSE, mcp |-> FALSE, str |-> ""]

(* No pipeline: the state of the pipeline variables in the specifications  *)
(* that do not run one.                                                    *)
InitPipelineIdle ==
    /\ args = [message_text |-> JNull, user_id |-> "", reply_token |-> ""]
    /\ pc = "idle"
    /\ prepared_text = ""
    /\ final_text = << >>
    /\ tool_done = FALSE
    /\ resource_exhausted = FALSE
    /\ stream_exc = NoException
    /\ streamed = 0
    /\ msg_obj = Unbound
    /\ chain = << >>
    /\ contextLog = << >>
    /\ memoryLog = << >>
    /\ memory = << >>

----------------------------------------------------------------------------
(* SpecDedup and SpecThrottle: a guard called directly.                    *)

InitGuardState ==
    /\ now = 0
    /\ ticks = 0
    /\ dedup = EmptyMap
    /\ DEDUP_CACHE = EmptyMap
    /\ RUNNING_USERS = EmptyMap

InitIntake ==
    /\ RUNNER = "None"
    /\ tasks = << >>
    /\ calls = 0
    /\ response = "none"
    /\ intakeLog = << >>
    /\ body_events = "none"
    /\ handlers = << >>

InitGuards ==
    /\ InitGuardState
    /\ InitIntake
    /\ InitPipelineIdle
    /\ dedupLog = << >>
    /\ throttleLog = << >>

Tick(d) ==
    /\ ticks < MaxTicks
    /\ now' = now + d
    /\ ticks' = ticks + 1

GuardTick ==
    /\ Len(dedupLog) + Len(throttleLog) < MaxChecks
    /\ \E d \in Steps : Tick(d)
    /\ UNCHANGED <<dedup, DEDUP_CACHE, RUNNING_USERS, dedupLog, throttleLog>>
    /\ UNCHANGED intakeVars
    /\ UNCHANGED pipeVars

CallDedupSeenDb ==
    /\ Len(dedupLog) + Len(throttleLog) < MaxChecks
    /\ \E key \in GuardKeys, dbFails \in BOOLEAN :
         LET r == _dedup_seen_db(dedup, DEDUP_CACHE, key, now, dbFails)
         IN  /\ dedup' = r.rows
             /\ DEDUP_CACHE' = r.cache
             /\ dedupLog' = Append(dedupLog,
                    [key |-> key, t |-> now, store |-> r.store, dup |-> r.ret])
    /\ UNCHANGED <<now, ticks, RUNNING_USERS, throttleLog>>
    /\ UNCHANGED intakeVars
    /\ UNCHANGED pipeVars

CallUserThrottled ==
    /\ Len(dedupLog) + Len(throttleLog) < MaxChecks
    /\ \E user_id \in Users :
         LET r == _user_throttled(RUNNING_USERS, user_id, now)
         IN  /\ RUNNING_USERS' = r.running
             /\ throttleLog' = Append(throttleLog,
                    [user |-> user_id, t |-> now, throttled |-> r.ret])
    /\ UNCHANGED <<now, ticks, dedup, DEDUP_CACHE, dedupLog>>
    /\ UNCHANGED intakeVars
    /\ UNCHANGED pipeVars

NextDedup == GuardTick \/ CallDedupSeenDb

SpecDedup == InitGuards /\ [][NextDedup]_vars

NextThrottle == GuardTick \/ CallUserThrottled

SpecThrottle == InitGuards /\ [][NextThrottle]_vars

----------------------------------------------------------------------------
(* Reading the logs of SpecDedup and SpecThrottle.                         *)

MaxOf(S) == CHOOSE x \in S : \A y \in S : y <= x

(* The earlier checks of the key of check j that answered not-duplicate.   *)
EarlierNew(j) ==
    {i \in 1..(j - 1) : dedupLog[i].key = dedupLog[j].key /\ ~dedupLog[i].dup}

(* The same, among the checks answered by the store that answered check j. *)
EarlierNewSameStore(j) ==
    {i \in EarlierNew(j) : dedupLog[i].store = dedupLog[j].store}

EarlierAdmitted(j) ==
    {i \in 1..(j - 1) : /\ throttleLog[i].user = throttleLog[j].user
                        /\ ~throttleLog[i].throttled}

(* C1 as stated: a key's first check answers not-duplicate; a later check  *)
(* answers duplicate exactly when it is made within DEDUP_TTL_SECONDS of   *)
(* the key's last not-duplicate check, whichever store answered.           *)
C1_DedupWindowAnyStore ==
    \A j \in 1..Len(dedupLog) :
        IF EarlierNew(j) = {}
        THEN ~dedupLog[j].dup
        ELSE dedupLog[j].dup <=>
                (dedupLog[j].t - dedupLog[MaxOf(EarlierNew(j))].t
                    <= DEDUP_TTL_SECONDS)

(* C1 amended: among the checks of a key answered by one store (the table, *)
(* or the in-memory cache when the table fails), the first answers         *)
(* not-duplicate, a check within DEDUP_TTL_SECONDS of the last             *)
(* not-duplicate one answers duplicate, and a check made more than         *)
(* DEDUP_TTL_SECONDS after it answers not-duplicate again.                 *)
C1_DedupWindowPerStore ==
    \A j \in 1..Len(dedupLog) :
        IF EarlierNewSameStore(j) = {}
        THEN ~dedupLog[j].dup
        ELSE dedupLog[j].dup <=>
                (dedupLog[j].t - dedupLog[MaxOf(EarlierNewSameStore(j))].t
                    <= DEDUP_TTL_SECONDS)

(* A key checked three times against the table: new, duplicate exactly     *)
(* DEDUP_TTL_SECONDS later, new again one second after that.               *)
C1_Witness ==
    \E i, j, k \in 1..Len(dedupLog) :
        /\ i < j /\ j < k
        /\ dedupLog[i].key = dedupLog[j].key /\ dedupLog[j].key = dedupLog[k].key
        /\ dedupLog[i].store = "db" /\ dedupLog[j].store = "db"
        /\ dedupLog[k].store = "db"
        /\ ~dedupLog[i].dup /\ dedupLog[j].dup /\ ~dedupLog[k].dup
        /\ dedupLog[j].t - dedupLog[i].t = DEDUP_TTL_SECONDS
        /\ dedupLog[k].t - dedupLog[i].t > DEDUP_TTL_SECONDS

(* C2: a user's first admission check admits; a later check is rejected    *)
(* exactly when it is made within RUNNING_TTL_SECONDS of the user's last   *)
(* admitted check, and admits again once the window has passed.            *)
C2_ThrottleWindow ==
    \A j \in 1..Len(throttleLog) :
        IF EarlierAdmitted(j) = {}
        THEN ~throttleLog[j].throttled
        ELSE throttleLog[j].throttled <=>
                (throttleLog[j].t - throttleLog[MaxOf(EarlierAdmitted(j))].t
                    <= RUNNING_TTL_SECONDS)

(* A user admitted, rejected exactly RUNNING_TTL_SECONDS later, admitted   *)
(* one second after that.                                                  *)
C2_Witness ==
    \E i, j, k \in 1..Len(throttleLog) :
        /\ i < j /\ j < k
        /\ throttleLog[i].user = throttleLog[j].user
        /\ throttleLog[j].user = throttleLog[k].user
        /\ ~throttleLog[i].throttled /\ throttleLog[j].throttled
        /\ ~throttleLog[k].throttled
        /\ throttleLog[j].t - throttleLog[i].t = RUNNING_TTL_SECONDS
        /\ throttleLog[k].t - throttleLog[i].t > RUNNING_TTL_SECONDS

----------------------------------------------------------------------------
(* The webhook intake: webhook(request).                                   *)

DESTINATION_USER_ID == "dest"

(* A JSON event of the body.  A field that is absent, null or empty is "", *)
(* which the code tests alike (x or ..., if not x).  isDict is FALSE for   *)
(* an element of events that is not a JSON object, on which ev.get raises. *)
Event(type, mtype, userId, id, text, webhookEventId, replyToken) ==
    [isDict |-> TRUE, type |-> type, mtype |-> mtype, userId |-> userId,
     id |-> id, text |-> text, webhookEventId |-> webhookEventId,
     replyToken |-> replyToken]

NotAnObject == [Event("", "", "", "", "", "", "") EXCEPT !.isDict = FALSE]

(* The events delivered: a text message with a webhookEventId, a second    *)
(* text message of the same user without one, a text message with neither  *)
(* userId, ids nor replyToken, a follow event, an image message and an     *)
(* element that is no object.                                              *)
Events ==
    { Event("message", "text", "u1", "m1", "hi", "e1", "r1"),
      Event("message", "text", "u1", "m2", "hi", "", "r2"),
      Event("message", "text", "", "", "hi", "", ""),
      Event("follow", "", "u2", "", "", "e3", "r3"),
      Event("message", "image", "u2", "m4", "", "e4", "r4"),
      NotAnObject }

(* hash(text): some integer per text, fixed for the life of the process.   *)
hash(text) == IF text = "" THEN 0 ELSE 7919 + Len(text)

(* The request bodies: not JSON; JSON that is no object; an object without *)
(* events; an object whose events is null, a number, a string or an        *)
(* object; an object with a list of events.  events holds what "for ev in  *)
(* events" yields: the characters of a string and the keys of an object    *)
(* are strings, which have no get.                                         *)
Body(isJson, isObject, eventsShape, events) ==
    [isJson |-> isJson, isObject |-> isObject, eventsShape |-> eventsShape,
     events |-> events]

OddBodies ==
    { Body(FALSE, FALSE, "missing", << >>),
      Body(TRUE, FALSE, "missing", << >>),
      Body(TRUE, TRUE, "missing", << >>),
      Body(TRUE, TRUE, "null", << >>),
      Body(TRUE, TRUE, "number", << >>) }

IterableBodies ==
    { Body(TRUE, TRUE, "string", <<NotAnObject>>),
      Body(TRUE, TRUE, "dict", <<NotAnObject>>) }

ListBody(events) == Body(TRUE, TRUE, "list", events)

(* What events is bound to at main.py:429: "unparsed" when the body is not *)
(* JSON, "missing" when the default [] is taken, else the kind of value.   *)
BodyEvents(b) ==
    IF ~b.isJson THEN "unparsed"
    ELSE IF ~b.isObject THEN "missing"
    ELSE b.eventsShape

(* "for ev in events" raises TypeError on None and on a number.            *)
Iterable(b) == ~(b.isObject /\ b.eventsShape \in {"null", "number"})

(* The state the loop over the events reads and writes.                    *)
IntakeState(rows, cache, running, runner, ts, log, has_accepted) ==
    [rows |-> rows, cache |-> cache, running |-> running, runner |-> runner,
     tasks |-> ts, log |-> log, has_accepted |-> has_accepted]

(* What the loop did with one event: "error" (ev.get raised, caught by     *)
(* except Exception), "skipped" (not a text message), "duplicate",         *)
(* "throttled", "no_token" or "dispatched".                                *)
LogEntry(call, ev, key, user_id, t, store, outcome) ==
    [call |-> call, key |-> key, eventId |-> ev.webhookEventId,
     user |-> user_id, token |-> ev.replyToken, t |-> t, store |-> store,
     outcome |-> outcome, pos |-> 0, of |-> 0]

Logged(st, call, ev, key, user_id, t, store, outcome) ==
    Append(st.log, LogEntry(call, ev, key, user_id, t, store, outcome))

(* user_id and dedup_key of a text-message event (main.py:444-449).        *)
user_id_of(ev) == IF ev.userId # "" THEN ev.userId ELSE DESTINATION_USER_ID

dedup_key_of(ev) ==
    IF ev.webhookEventId # ""
    THEN ev.webhookEventId
    ELSE IF ev.id # ""
         THEN user_id_of(ev) \o ":" \o ev.id
         ELSE user_id_of(ev) \o ":" \o ToString(hash(ev.text))

(* process_with_adk_agent(runner, text, user_id, reply_token) as a task    *)
(* that has been created; entry is the place in intakeLog of the event it  *)
(* was created for; done says that the coroutine has returned.             *)
Task(ev, user_id, call, entry, t) ==
    [user_id |-> user_id, reply_token |-> ev.replyToken,
     message_text |-> ev.text, call |-> call, entry |-> entry, t |-> t,
     done |-> FALSE]

(* One iteration of "for ev in events" (main.py:433-472).                  *)
HandleEventNoTokenCheck(ev, dbFails, st, call, t) ==
    IF ~ev.isDict
    THEN [st EXCEPT !.log = Logged(st, call, ev, "", "", t, "none", "error")]
    ELSE IF ev.type # "message" \/ ev.mtype # "text"
    THEN [st EXCEPT !.log = Logged(st, call, ev, "", "", t, "none", "skipped")]
    ELSE LET user_id == user_id_of(ev)
             key == dedup_key_of(ev)
             d == _dedup_seen_db(st.rows, st.cache, key, t, dbFails)
             th == _user_throttled(st.running, user_id, t)
         IN  IF d.ret
             THEN [st EXCEPT !.rows = d.rows, !.cache = d.cache,
                     !.log = Logged(st, call, ev, key, user_id, t, d.store,
                                    "duplicate")]
             ELSE IF th.ret
             THEN [st EXCEPT !.rows = d.rows, !.cache = d.cache,
                     !.running = th.running,
                     !.log = Logged(st, call, ev, key, user_id, t, d.store,
                                    "throttled")]
             ELSE [st EXCEPT !.rows = d.rows, !.cache = d.cache,
                     !.running = th.running,
                     !.runner = "runner",
                     !.tasks = Append(@, Task(ev, user_id, call,
                                              Len(st.log) + 1, t)),
                     !.has_accepted = TRUE,
                     !.log = Logged(st, call, ev, key, user_id, t, d.store,
                                    "dispatched")]

\* an iteration that asks the throttle before it records the dedup key
HandleEventThrottleFirst(ev, dbFails, st, call, t) ==
    IF ~ev.isDict
    THEN [st EXCEPT !.log = Logged(st, call, ev, "", "", t, "none", "error")]
    ELSE IF ev.type # "message" \/ ev.mtype # "text"
    THEN [st EXCEPT !.log = Logged(st, call, ev, "", "", t, "none", "skipped")]
    ELSE LET user_id == user_id_of(ev)
             key == dedup_key_of(ev)
             th == _user_throttled(st.running, user_id, t)
             d == _dedup_seen_db(st.rows, st.cache, key, t, dbFails)
         IN  IF th.ret
             THEN [st EXCEPT !.running = th.running,
                     !.log = Logged(st, call, ev, key, user_id, t,
                                    IF dbFails THEN "mem" ELSE "db",
                                    "throttled")]
             ELSE IF d.ret
             THEN [st EXCEPT !.rows = d.rows, !.cache = d.cache,
                     !.running = th.running,
                     !.log = Logged(st, call, ev, key, user_id, t, d.store,
                                    "duplicate")]
             ELSE IF ev.replyToken = ""
             THEN [st EXCEPT !.rows = d.rows, !.cache = d.cache,
                     !.running = th.running,
                     !.log = Logged(st, call, ev, key, user_id, t, d.store,
                                    "no_token")]
             ELSE [st EXCEPT !.rows = d.rows, !.cache = d.cache,
                     !.running = th.running,
                     !.runner = "runner",
                     !.tasks = Append(@, Task(ev, user_id, call,
                                              Len(st.log) + 1, t)),
                     !.has_accepted = TRUE,
                     !.log = Logged(st, call, ev, key, user_id, t, d.store,
                                    "dispatched")]

HandleEvent(ev, dbFails, st, call, t) ==
    IF ~ev.isDict
    THEN \* ev.get raises AttributeError: except Exception, continue
         [st EXCEPT !.log = Logged(st, call, ev, "", "", t, "none", "error")]
    ELSE IF ev.type # "message"
    THEN [st EXCEPT !.log = Logged(st, call, ev, "", "", t, "none", "skipped")]
    ELSE IF ev.mtype # "text"
    THEN [st EXCEPT !.log = Logged(st, call, ev, "", "", t, "none", "skipped")]
    ELSE LET user_id == user_id_of(ev)
             key == dedup_key_of(ev)
             d == _dedup_seen_db(st.rows, st.cache, key, t, dbFails)
             th == _user_throttled(st.running, user_id, t)
         IN  IF d.ret
             THEN [st EXCEPT !.rows = d.rows, !.cache = d.cache,
                     !.log = Logged(st, call, ev, key, user_id, t, d.store,
                                    "duplicate")]
             ELSE IF th.ret
             THEN [st EXCEPT !.rows = d.rows, !.cache = d.cache,
                     !.running = th.running,
                     !.log = Logged(st, call, ev, key, user_id, t, d.store,
                                    "throttled")]
             ELSE IF ev.replyToken = ""
             THEN [st EXCEPT !.rows = d.rows, !.cache = d.cache,
                     !.running = th.running,
                     !.log = Logged(st, call, ev, key, user_id, t, d.store,
                                    "no_token")]
             ELSE \* get_runner(), asyncio.create_task(...)
                  [st EXCEPT !.rows = d.rows, !.cache = d.cache,
                     !.running = th.running,
                     !.runner = "runner",
                     !.tasks = Append(@, Task(ev, user_id, call,
                                              Len(st.log) + 1, t)),
                     !.has_accepted = TRUE,
                     !.log = Logged(st, call, ev, key, user_id, t, d.store,
                                    "dispatched")]

(* "for ev in events" (main.py:433): the entry of the event just handled   *)
(* is given its place in the body and the number of events of the body.    *)
Stamp(st, i, n) ==
    [st EXCEPT !.log[Len(st.log)].pos = i, !.log[Len(st.log)].of = n]

\* a loop that an exception of one event ends
RECURSIVE ScanEventsUntilError(_, _, _, _, _, _)
ScanEventsUntilError(events, fails, i, st, call, t) ==
    IF i > Len(events)
    THEN st
    ELSE LET after == Stamp(HandleEvent(events[i], fails[i], st, call, t),
                            i, Len(events))
         IN  IF after.log[Len(after.log)].outcome = "error"
             THEN after
             ELSE ScanEventsUntilError(events, fails, i + 1, after, call, t)

RECURSIVE ScanEvents(_, _, _, _, _, _)
ScanEvents(events, fails, i, st, call, t) ==
    IF i > Len(events)
    THEN st
    ELSE ScanEvents(events, fails, i + 1,
                    Stamp(HandleEvent(events[i], fails[i], st, call, t),
                          i, Len(events)),
                    call, t)

(* The response of the handler, after the loop (main.py:474-477).          *)
ResponseAlwaysOk(has_accepted) == "ok"

ResponseOf(has_accepted) == IF ~has_accepted THEN "ignored" ELSE "ok"

(* At most MaxCalls calls are made, and the bodies hold at most            *)
(* MaxDeliveries events in all.                                            *)
MaxCalls == 2

MaxDeliveries == 3

SeqsUpTo(S, n) == UNION {[1..k -> S] : k \in 0..n}

(* Which of the body's dedup checks find the database failing: only a     *)
(* text-message event reaches _dedup_seen_db, and the database is down for *)
(* all the checks of one request or for none.                              *)
IsTextMessage(ev) == ev.isDict /\ ev.type = "message" /\ ev.mtype = "text"

FailPatterns(events) ==
    {f \in [1..Len(events) -> BOOLEAN] :
        \E down \in BOOLEAN :
            \A i \in 1..Len(events) : f[i] = (down /\ IsTextMessage(events[i]))}

(* main.py:422-477, from the body that request.json() gave (or its        *)
(* raising) to the response: no await lies between them, so the handler    *)
(* runs from here to its return without another coroutine in between.      *)
Answer(b) ==
    /\ calls' = calls + 1
    /\ body_events' = BodyEvents(b)
    /\ IF ~b.isJson
       THEN \* request.json() raises
            /\ response' = "bad_request"
            /\ UNCHANGED <<dedup, DEDUP_CACHE, RUNNING_USERS, RUNNER, tasks,
                           intakeLog>>
       ELSE IF ~Iterable(b)
       THEN \* "for ev in None", "for ev in 5" raise TypeError outside the try
            /\ response' = "server_error"
            /\ UNCHANGED <<dedup, DEDUP_CACHE, RUNNING_USERS, RUNNER, tasks,
                           intakeLog>>
       ELSE LET events == IF b.isObject THEN b.events ELSE << >>
            IN  \E fails \in FailPatterns(events) :
                  LET st == ScanEvents(events, fails, 1,
                                IntakeState(dedup, DEDUP_CACHE, RUNNING_USERS,
                                            RUNNER, tasks, intakeLog, FALSE),
                                calls + 1, now)
                  IN  /\ dedup' = st.rows
                      /\ DEDUP_CACHE' = st.cache
                      /\ RUNNING_USERS' = st.running
                      /\ RUNNER' = st.runner
                      /\ tasks' = st.tasks
                      /\ intakeLog' = st.log
                      /\ response' = ResponseOf(st.has_accepted)

(* One call of the endpoint with no other call in between.                 *)
webhook ==
    /\ calls < MaxCalls
    /\ \E b \in OddBodies
                \cup (IF Len(intakeLog) < MaxDeliveries
                      THEN IterableBodies ELSE {})
                \cup {ListBody(es) :
                        es \in SeqsUpTo(Events, MaxDeliveries - Len(intakeLog))} :
         Answer(b)
    /\ UNCHANGED <<now, ticks, dedupLog, throttleLog, handlers>>
    /\ UNCHANGED pipeVars

(* A dispatched task returns.                                              *)
TaskReturns ==
    /\ \E i \in 1..Len(tasks) :
         /\ ~tasks[i].done
         /\ tasks' = [tasks EXCEPT ![i].done = TRUE]
    /\ UNCHANGED <<now, ticks, dedup, DEDUP_CACHE, RUNNING_USERS, RUNNER,
                   calls, response, intakeLog, body_events, handlers, dedupLog,
                   throttleLog>>
    /\ UNCHANGED pipeVars

(* The first call is made at second 0; after a call the clock may advance  *)
(* past a throttle window, or by a dedup TTL, before the next call.        *)
IntakeSteps == {RUNNING_TTL_SECONDS + 1, DEDUP_TTL_SECONDS}

IntakeTick ==
    /\ ticks < calls /\ calls < MaxCalls
    /\ \E d \in IntakeSteps : now' = now + d
    /\ ticks' = ticks + 1
    /\ UNCHANGED <<dedup, DEDUP_CACHE, RUNNING_USERS, dedupLog, throttleLog>>
    /\ UNCHANGED intakeVars
    /\ UNCHANGED pipeVars

Init ==
    /\ InitGuardState
    /\ InitIntake
    /\ InitPipelineIdle
    /\ dedupLog = << >>
    /\ throttleLog = << >>

Next == webhook \/ TaskReturns \/ IntakeTick

Spec == Init /\ [][Next]_vars

----------------------------------------------------------------------------
(* Reading intakeLog and tasks.                                            *)

(* The event of entry k was given a pipeline.                              *)
DispatchedBy(k) == \E n \in 1..Len(tasks) : tasks[n].entry = k

(* Entry i is the first delivery of its webhookEventId, and entry j a      *)
(* delivery of it by a later call, not more than DEDUP_TTL_SECONDS after   *)
(* the first.                                                              *)
Redelivery(i, j) ==
    /\ i < j
    /\ intakeLog[i].call < intakeLog[j].call
    /\ intakeLog[i].eventId # ""
    /\ intakeLog[i].outcome \notin {"error", "skipped"}
    /\ intakeLog[j].outcome \notin {"error", "skipped"}
    /\ intakeLog[j].eventId = intakeLog[i].eventId
    /\ \A h \in 1..(i - 1) : intakeLog[h].eventId # intakeLog[i].eventId
    /\ intakeLog[j].t - intakeLog[i].t <= DEDUP_TTL_SECONDS

C6_NoTokenNoDispatch ==
    /\ \A n \in 1..Len(tasks) : tasks[n].reply_token # ""
    /\ \A k \in 1..Len(intakeLog) :
            intakeLog[k].token = "" => ~DispatchedBy(k)
    /\ \A k \in 1..Len(intakeLog) :
            ( /\ intakeLog[k].call = calls
              /\ intakeLog[k].token = ""
              /\ \A h \in 1..Len(intakeLog) :
                    intakeLog[h].call = calls => h = k )
            => response = "ignored"

(* A text message without a replyToken, alone in its body, that passed the *)
(* dedup and throttle checks: skipped, and the call answered "ignored".    *)
C6_Witness ==
    \E k \in 1..Len(intakeLog) :
        /\ intakeLog[k].call = calls
        /\ intakeLog[k].outcome = "no_token"
        /\ \A h \in 1..Len(intakeLog) : intakeLog[h].call = calls => h = k
        /\ response = "ignored"

(* The pipelines created by the latest call.                               *)
TasksOfCall(c) == {n \in 1..Len(tasks) : tasks[n].call = c}

(* C7 as stated: when a call with a parseable body is answered, the        *)
(* response is "ok" if an event of the body was dispatched and "ignored"   *)
(* otherwise, and no pipeline of the call has finished at that moment.     *)
C7_ResponseOfParseableBody ==
    [][ (calls' = calls + 1 /\ response' # "bad_request") =>
            /\ response' = IF TasksOfCall(calls + 1)' # {}
                           THEN "ok" ELSE "ignored"
            /\ \A n \in TasksOfCall(calls + 1)' : ~tasks'[n].done ]_vars

(* C9 as stated: no user has two pipelines in flight at once.              *)
C9_OneInFlightPerUser ==
    \A m, n \in 1..Len(tasks) :
        ( /\ m # n
          /\ tasks[m].user_id = tasks[n].user_id
          /\ ~tasks[m].done /\ ~tasks[n].done ) => FALSE

(* C9 amended: the throttle guard admits at most one request of a user per *)
(* window: two pipelines of one user are dispatched more than              *)
(* RUNNING_TTL_SECONDS apart, and a pipeline that outlives the window does *)
(* not keep the user's next request out.                                   *)
C9_OneDispatchPerWindow ==
    \A m, n \in 1..Len(tasks) :
        (m < n /\ tasks[m].user_id = tasks[n].user_id) =>
            tasks[n].t - tasks[m].t > RUNNING_TTL_SECONDS

(* Two pipelines of one user in flight at once, dispatched one second more *)
(* than a window apart.                                                    *)
C9_Witness ==
    \E m, n \in 1..Len(tasks) :
        /\ m < n
        /\ tasks[m].user_id = tasks[n].user_id
        /\ ~tasks[m].done /\ ~tasks[n].done
        /\ tasks[n].t - tasks[m].t = RUNNING_TTL_SECONDS + 1

----------------------------------------------------------------------------
(* Python strings.  The model's strings are ASCII: a Thai word of the      *)
(* source is written as "#" and its romanisation, keeping which word is a  *)
(* prefix of which ("#pro" of "#promochan"); Thai has no letter case, and  *)
(* str.lower() leaves "#..." alone as it leaves Thai alone.                *)

ASCII_UPPERCASE == "ABCDEFGHIJKLMNOPQRSTUVWXYZ"

ASCII_LOWERCASE == "abcdefghijklmnopqrstuvwxyz"

LowerChar(c) ==
    IF \E i \in 1..26 : SubSeq(ASCII_UPPERCASE, i, i) = c
    THEN LET i == CHOOSE j \in 1..26 : SubSeq(ASCII_UPPERCASE, j, j) = c
         IN  SubSeq(ASCII_LOWERCASE, i, i)
    ELSE c

\* str.lower()
RECURSIVE lower(_)
lower(str) ==
    IF Len(str) = 0 THEN ""
    ELSE LowerChar(SubSeq(str, 1, 1)) \o lower(SubSeq(str, 2, Len(str)))

\* k in str
Contains(str, k) ==
    \E i \in 1..(Len(str) - Len(k) + 1) : SubSeq(str, i, i + Len(k) - 1) = k

\* str[:n]
Prefix(str, n) == IF Len(str) > n THEN SubSeq(str, 1, n) ELSE str

IsSpace(c) == c \in {" ", "\n", "\t"}

\* str.strip()
RECURSIVE strip(_)
strip(str) ==
    IF Len(str) = 0 THEN ""
    ELSE IF IsSpace(SubSeq(str, 1, 1)) THEN strip(SubSeq(str, 2, Len(str)))
    ELSE IF IsSpace(SubSeq(str, Len(str), Len(str)))
    THEN strip(SubSeq(str, 1, Len(str) - 1))
    ELSE str

(* The card-intent heuristic of main.py:509-519, repeated at 647-657 and   *)
(* 670-680: "flex" in the lower-cased text, or one of the Thai words in    *)
(* the text as it is.                                                      *)
ThaiCardWords ==
    {"#flek", "#flak", "#kaat", "#menu", "#pro", "#promochan", "#promochun",
     "#khupong"}

user_ask_flex_of(message_text) ==
    LET lt == lower(message_text)
    IN  \/ Contains(lt, "flex")
        \/ \E w \in ThaiCardWords : Contains(message_text, w)

----------------------------------------------------------------------------
(* The backend's final text.  A text is a sequence of tokens, each with    *)
(* its characters s: "prose" (no brace, no backtick), "fence" (three       *)
(* backticks, written as three apostrophes: a string of this language      *)
(* cannot hold a backtick), "nl" (a newline), "json" (the characters of    *)
(* one JSON value, with the value v that json.loads makes of them) and     *)
(* "junk" (characters with a brace that are not JSON).  The str is the     *)
(* tokens' characters in order.                                            *)

Tok(kind, str, v) == [tok |-> kind, s |-> str, v |-> v]

Prose(str) == Tok("prose", str, JNull)

FENCE == Tok("fence", "'''", JNull)

NL == Tok("nl", "\n", JNull)

\* the language tag after an opening fence
LANG == Prose("json")

Json(str, v) == Tok("json", str, v)

Junk(str) == Tok("junk", str, JNull)

RECURSIVE Str(_)
Str(toks) == IF toks = << >> THEN "" ELSE Head(toks).s \o Str(Tail(toks))

\* the tokens without the newlines at both ends: str.strip() of a text
RECURSIVE StripToks(_)
StripToks(toks) ==
    IF toks = << >> THEN << >>
    ELSE IF Head(toks).tok = "nl" THEN StripToks(Tail(toks))
    ELSE IF toks[Len(toks)].tok = "nl"
    THEN StripToks(SubSeq(toks, 1, Len(toks) - 1))
    ELSE toks

(* json.loads(text): the value, or raised.  The text is JSON when, apart   *)
(* from newlines around it, it is one "json" token.                        *)
json_loads(toks) ==
    LET body == StripToks(toks)
    IN  IF Len(body) = 1 /\ body[1].tok = "json"
        THEN [raised |-> FALSE, obj |-> body[1].v]
        ELSE [raised |-> TRUE, obj |-> JNull]

(* The re.search of main.py:721, fence (?:json)? \s*\n (.*?) \n\s* fence: the *)
(* leftmost fence that opens a block (the fence, an optional "json", a     *)
(* newline), and the nearest fence after it that follows a newline other   *)
(* than the opening one; group(1) lies between the two newlines.           *)
OpensBlock(toks, i) ==
    /\ toks[i].tok = "fence"
    /\ LET h == IF i < Len(toks) /\ toks[i + 1].s = "json" THEN i + 1 ELSE i
       IN  h < Len(toks) /\ toks[h + 1].tok = "nl"

HeaderEnd(toks, i) ==
    IF toks[i + 1].s = "json" THEN i + 2 ELSE i + 1

ClosesBlock(toks, i, j) ==
    /\ j > HeaderEnd(toks, i) + 1
    /\ toks[j].tok = "fence"
    /\ toks[j - 1].tok = "nl"

MinOf(S) == CHOOSE m \in S : \A n \in S : m <= n

json_block_match(toks) ==
    LET starts == {i \in 1..Len(toks) :
                      /\ OpensBlock(toks, i)
                      /\ \E j \in 1..Len(toks) : ClosesBlock(toks, i, j)}
    IN  IF starts = {} THEN [found |-> FALSE, group1 |-> << >>]
        ELSE LET i == MinOf(starts)
                 j == MinOf({k \in 1..Len(toks) : ClosesBlock(toks, i, k)})
             IN  [found |-> TRUE,
                  group1 |-> SubSeq(toks, HeaderEnd(toks, i) + 1, j - 2)]

(* main.py:727-736 and 749-758: what a parsed value yields.                *)
Unwrap(obj) ==
    IF obj.kind # "obj" THEN [returns |-> FALSE, value |-> JNull]
    ELSE IF "message" \in DOMAIN obj.o /\ obj.o["message"].kind = "obj"
    THEN [returns |-> TRUE, value |-> obj.o["message"]]
    ELSE IF "type" \in DOMAIN obj.o
    THEN [returns |-> TRUE, value |-> obj]
    ELSE [returns |-> FALSE, value |-> JNull]

(* text.find('{') and text[json_start:]: the text from its first brace.    *)
(* It is JSON when the brace opens a "json" token and only newlines follow *)
(* the token; the value is then a dict.                                    *)
BraceAtStart(toks) ==
    IF toks # << >> /\ Contains(toks[1].s, "{") THEN 1 ELSE 0

BraceAt(toks) ==
    LET braces == {i \in 1..Len(toks) : Contains(toks[i].s, "{")}
    IN  IF braces = {} THEN 0 ELSE MinOf(braces)

potential_json(toks) ==
    LET json_start == BraceAt(toks)
    IN  IF json_start = 0 THEN [raised |-> TRUE, obj |-> JNull]
        ELSE IF SubSeq(toks[json_start].s, 1, 1) = "{"
        THEN json_loads(SubSeq(toks, json_start, Len(toks)))
        ELSE [raised |-> TRUE, obj |-> JNull]

(* _try_parse_message_obj(text): the message object, or JNull for None.    *)
_try_parse_message_obj(toks) ==
    LET m == json_block_match(toks)
        fenced == IF m.found THEN json_loads(m.group1)
                  ELSE [raised |-> TRUE, obj |-> JNull]
        direct == potential_json(toks)
    IN  IF m.found /\ ~fenced.raised /\ Unwrap(fenced.obj).returns
        THEN Unwrap(fenced.obj).value
        ELSE IF ~direct.raised /\ Unwrap(direct.obj).returns
        THEN Unwrap(direct.obj).value
        ELSE JNull

----------------------------------------------------------------------------
(* The outbound calls.  A call is the request POSTed to the reply or the   *)
(* push endpoint with one message; http_ok is whether it came back 2xx     *)
(* (an HTTPError and a network error both make the sender return False).   *)

Message(type, str, altText, contents) ==
    [type |-> type, text |-> str, altText |-> altText, contents |-> contents]

NoMessage == Message("", "", "", JNull)

Sent(http_ok, api, replyToken, to, message) ==
    [ok |-> http_ok, called |-> TRUE, api |-> api, replyToken |-> replyToken,
     to |-> to, message |-> message]

\* the sender returned False before any request was made
NotSent ==
    [ok |-> FALSE, called |-> FALSE, api |-> "", replyToken |-> "", to |-> "",
     message |-> NoMessage]

\* str(v) of a parsed value
PyStr(v) ==
    CASE v.kind \in {"str", "num", "bool"} -> v.s
      [] v.kind = "obj" -> "{...}"
      [] v.kind = "list" -> "[...]"
      [] OTHER -> "None"

DEFAULT_ALT_TEXT == "#khokhwam samkhan"

(* _fallback_push_line_message(user_id, message, reply_token); the access  *)
(* token is set, get_runner() having raised otherwise (main.py:467).       *)
_fallback_push_line_message(user_id, message, reply_token, http_ok) ==
    LET type == Get(message, "type")
        mtype == IF Truthy(type) THEN lower(type.s) ELSE ""
        payload_message ==
            IF mtype = "text" /\ Get(message, "text").kind = "str"
            THEN Message("text", Prefix(Get(message, "text").s, 5000), "", JNull)
            ELSE Message("flex", "",
                         Prefix(IF Truthy(Get(message, "altText"))
                                THEN PyStr(Get(message, "altText"))
                                ELSE DEFAULT_ALT_TEXT, 400),
                         Get(message, "contents"))
    IN  IF user_id = "" THEN NotSent
        ELSE IF Truthy(type) /\ type.kind # "str"
        THEN NotSent    \* .lower() raises AttributeError, caught at 842
        ELSE IF ~(mtype = "text" /\ Get(message, "text").kind = "str")
                /\ ~({"contents", "altText"} \subseteq DOMAIN message.o)
        THEN NotSent
        ELSE IF reply_token # ""
        THEN Sent(http_ok, "reply", reply_token, "", payload_message)
        ELSE Sent(http_ok, "push", "", user_id, payload_message)

\* a push of the whole text
PushLineTextUncut(user_id, str, http_ok) ==
    IF user_id = "" THEN NotSent
    ELSE Sent(http_ok, "push", "", user_id, Message("text", str, "", JNull))

(* _fallback_push_line_text(user_id, text): always the push endpoint.      *)
_fallback_push_line_text(user_id, str, http_ok) ==
    IF user_id = "" THEN NotSent
    ELSE Sent(http_ok, "push", "", user_id,
              Message("text", Prefix(str, 5000), "", JNull))

(* The demonstration card of _send_demo_flex.                              *)
DEMO_ALT_TEXT == "#tuayang promochan - du rai-la-iat"

demo_contents ==
    JObj([type |-> JStr("bubble"),
          body |-> JObj([type |-> JStr("box"),
                         layout |-> JStr("vertical"),
                         contents |-> JList(<<
              JObj([type |-> JStr("text"), text |-> JStr("#tuayang promochan"),
                    weight |-> JStr("bold"), size |-> JStr("lg")]),
              JObj([type |-> JStr("text"), text |-> JStr("#suanlot phiset 20%"),
                    wrap |-> JTrue, size |-> JStr("sm"),
                    color |-> JStr("#555555")]),
              JObj([type |-> JStr("separator"), margin |-> JStr("md")]),
              JObj([type |-> JStr("button"), style |-> JStr("primary"),
                    margin |-> JStr("md"),
                    action |-> JObj([type |-> JStr("uri"),
                                     label |-> JStr("#du rai-la-iat"),
                                     uri |-> JStr("https://example.com/")])])
                         >>)])])

\* a sender of the demonstration card that sends its alt text as plain text
SendDemoAsText(user_id, reply_token, http_ok) ==
    _fallback_push_line_message(user_id,
        JObj([type |-> JStr("text"), text |-> JStr(DEMO_ALT_TEXT)]),
        reply_token, http_ok)

_send_demo_flex(user_id, reply_token, http_ok) ==
    _fallback_push_line_message(user_id,
        JObj([altText |-> JStr(DEMO_ALT_TEXT), contents |-> demo_contents]),
        reply_token, http_ok)

----------------------------------------------------------------------------
(* The conversation memory.                                                *)

Turn(user_id, role, str) == [user_id |-> user_id, role |-> role, text |-> str]

\* memory_add_message; db_ok is whether the INSERT committed
memory_add_message(mem, user_id, role, str, db_ok) ==
    IF db_ok THEN Append(mem, Turn(user_id, role, str)) ELSE mem

(* One call of memory_add_message as memoryLog keeps it; ok says whether   *)
(* the INSERT went through.                                                *)
MemoryCall(role, str, db_ok) == [role |-> role, text |-> str, ok |-> db_ok]

memory_get_oldest(mem, user_id, limit, db_ok) ==
    IF ~db_ok THEN << >>
    ELSE LET mine == SelectSeq(mem, LAMBDA r : r.user_id = user_id)
         IN  IF Len(mine) > limit THEN SubSeq(mine, 1, limit) ELSE mine

\* memory_get_recent; db_ok is whether the SELECT ran
memory_get_recent(mem, user_id, limit, db_ok) ==
    IF ~db_ok THEN << >>
    ELSE LET mine == SelectSeq(mem, LAMBDA r : r.user_id = user_id)
         IN  IF Len(mine) > limit
             THEN SubSeq(mine, Len(mine) - limit + 1, Len(mine))
             ELSE mine

CTX_HEADER == "#boribot kon na:\n"

RECURSIVE ContextLines(_)
ContextLines(turns) ==
    IF turns = << >> THEN << >>
    ELSE LET r == Head(turns)
             prefix == IF lower(r.role) = "user" THEN "#phuchai" ELSE "#bot"
             t == strip(r.text)
             line == prefix \o ": "
                        \o (IF Len(t) > 300 THEN SubSeq(t, 1, 300) \o "..." ELSE t)
         IN  IF r.text = "" THEN ContextLines(Tail(turns))
             ELSE <<line>> \o ContextLines(Tail(turns))

RECURSIVE Join(_, _)
Join(sep, lines) ==
    IF lines = << >> THEN ""
    ELSE IF Len(lines) = 1 THEN lines[1]
    ELSE lines[1] \o sep \o Join(sep, Tail(lines))

\* build_memory_context; "" stands for None
build_memory_context(mem, user_id, limit, db_ok) ==
    LET lines == ContextLines(memory_get_recent(mem, user_id, limit, db_ok))
    IN  IF lines = << >> THEN "" ELSE CTX_HEADER \o Join("\n", lines)

----------------------------------------------------------------------------
(* SpecPipeline: one dispatched process_with_adk_agent, statement by       *)
(* statement.  The backend is a stream of events that ends or raises; the  *)
(* outbound calls and the memory store succeed or fail.                    *)

(* The texts of the dispatched event: webhook passes on                    *)
(* msg.get("text") or "" whatever its JSON type (main.py:445, 468).        *)
MessageTexts == {JStr("hi"), JStr("Flex please"), JStr("#khupong"), JNum("5")}

TextMsg == JObj([type |-> JStr("text"), text |-> JStr("hello")])

FlexMsg ==
    JObj([type |-> JStr("flex"), altText |-> JStr("menu card"),
          contents |-> JObj([type |-> JStr("bubble")])])

\* n copies of str
RECURSIVE Repeat(_, _)
Repeat(str, n) ==
    IF n = 0 THEN ""
    ELSE IF n % 2 = 0 THEN LET half == Repeat(str, n \div 2) IN half \o half
    ELSE str \o Repeat(str, n - 1)

\* a text of 5001 characters and an alt text of 401
LONG_TEXT == Repeat("a", 5001)

LONG_ALT_TEXT == Repeat("b", 401)

(* The final texts of the backend: prose; a fenced text message after      *)
(* prose; a card after prose; a card nested under "message"; a card with   *)
(* no contents; a text message whose text is a number; an empty nested     *)
(* message; a nested message with no type; a card whose contents is null;  *)
(* a text message whose text is a number and that has the fields of a card; a text message and a card     *)
(* whose text and alt text are longer than the platform takes; a fenced    *)
(* card without a language tag; a fenced object with neither type nor      *)
(* message; a text message followed by prose; prose with a brace that is   *)
(* no JSON; a fenced text message that also has a nested card.             *)
FinalTexts ==
    { <<Prose("Hello there")>>,
      <<FENCE, NL,
        Json("{\"type\":\"flex\",\"altText\":\"menu card\",\"contents\":{\"type\":\"bubble\"}}",
             FlexMsg), NL, FENCE, NL>>,
      <<FENCE, LANG, NL,
        Json("{\"foo\":1}", JObj([foo |-> JNum("1")])), NL, FENCE>>,
      <<Json("{\"type\":\"text\",\"text\":\"hello\"}", TextMsg),
        Prose(" Enjoy!")>>,
      <<Prose("Use "), Junk("{name}"), Prose(" as a placeholder")>>,
      <<FENCE, LANG, NL,
        Json("{\"type\":\"text\",\"text\":\"hello\",\"message\":{\"type\":\"flex\",\"altText\":\"menu card\",\"contents\":{\"type\":\"bubble\"}}}",
             JObj([type |-> JStr("text"), text |-> JStr("hello"),
                   message |-> FlexMsg])), NL, FENCE>>,
      <<Prose("Here you go:"), NL, FENCE, LANG, NL,
        Json("{\"type\":\"text\",\"text\":\"hello\"}", TextMsg), NL, FENCE>>,
      <<Prose("Sure: "),
        Json("{\"type\":\"flex\",\"altText\":\"menu card\",\"contents\":{\"type\":\"bubble\"}}",
             FlexMsg)>>,
      <<Json("{\"message\":{\"type\":\"flex\",\"altText\":\"menu card\",\"contents\":{\"type\":\"bubble\"}}}",
             JObj([message |-> FlexMsg]))>>,
      <<Json("{\"type\":\"flex\",\"altText\":\"menu card\"}",
             JObj([type |-> JStr("flex"), altText |-> JStr("menu card")]))>>,
      <<Json("{\"type\":\"text\",\"text\":5}",
             JObj([type |-> JStr("text"), text |-> JNum("5")]))>>,
      <<Json("{\"message\":{}}", JObj([message |-> JObj(EmptyObj)]))>>,
      <<Json("{\"message\":{\"text\":\"hello\"}}",
             JObj([message |-> JObj([text |-> JStr("hello")])]))>>,
      <<Json("{\"type\":\"flex\",\"altText\":\"menu card\",\"contents\":null}",
             JObj([type |-> JStr("flex"), altText |-> JStr("menu card"),
                   contents |-> JNull]))>>,
      <<Json("{\"type\":\"text\",\"text\":5,\"altText\":\"menu card\",\"contents\":{\"type\":\"bubble\"}}",
             JObj([type |-> JStr("text"), text |-> JNum("5"),
                   altText |-> JStr("menu card"),
                   contents |-> JObj([type |-> JStr("bubble")])]))>>,
      <<Json("{\"type\":\"text\",\"text\":\"" \o LONG_TEXT \o "\"}",
             JObj([type |-> JStr("text"), text |-> JStr(LONG_TEXT)]))>>,
      <<Json("{\"type\":\"flex\",\"altText\":\"" \o LONG_ALT_TEXT
                \o "\",\"contents\":{\"type\":\"bubble\"}}",
             JObj([type |-> JStr("flex"), altText |-> JStr(LONG_ALT_TEXT),
                   contents |-> JObj([type |-> JStr("bubble")])]))>> }

(* A backend event: its event_type, whether is_final_response() and        *)
(* content hold, and content.parts[0].text (<< >> for None, no parts or    *)
(* the empty text).                                                        *)
StreamEvent(event_type, final, toks) ==
    [event_type |-> event_type, final |-> final, text |-> toks]

StreamEvents ==
    {StreamEvent("tool_response", FALSE, << >>), StreamEvent("", FALSE, << >>)}
    \cup {StreamEvent("", TRUE, t) : t \in FinalTexts \cup {<< >>}}

StreamExceptions ==
    {Exception(TRUE, "tool call failed"), Exception(TRUE, "429 from tool"),
     Exception(FALSE, "RESOURCE_EXHAUSTED"),
     Exception(FALSE, "429 Too Many Requests"),
     Exception(FALSE, "connection reset")}

\* main.py:574-583
resource_exhausted_of(e) ==
    /\ ~e.mcp
    /\ (Contains(e.str, "RESOURCE_EXHAUSTED") \/ Contains(e.str, "429"))

MaxStreamEvents == 2

MEMORY_LIMIT == 8

(* The stored turns a pipeline finds: none; two; more than the limit, after *)
(* a turn of another user; more than the limit with an empty text          *)
(* (memory_add_message stores text or ""), a text of 301 characters and    *)
(* one of 300.                                                             *)
ShortTexts == <<"t1", "t2", "t3", "t4", "t5", "t6", "t7", "t8", "t9">>

TurnsOf(user_id, texts) ==
    [i \in 1..Len(texts) |->
        Turn(user_id, IF i % 2 = 1 THEN "user" ELSE "assistant", texts[i])]

Memories ==
    { << >>,
      <<Turn("u1", "user", "hi "), Turn("u1", "assistant", "hello")>>,
      <<Turn("u2", "user", "other")>> \o TurnsOf("u1", ShortTexts),
      TurnsOf("u1", [ShortTexts EXCEPT ![4] = "",
                                       ![5] = Repeat("c", 301),
                                       ![6] = Repeat("d", 300)]) }

(* One call of build_memory_context: the table it read, its arguments,     *)
(* whether the SELECT ran, and what it returned.                           *)
ContextCall(mem, user_id, limit, read_ok, ctx) ==
    [mem |-> mem, user_id |-> user_id, limit |-> limit, read_ok |-> read_ok,
     ctx |-> ctx]

FLEX_INSTRUCTION == "\n#flex_instruction\n"

MCP_INSTRUCTION == "\n#mcp_instruction"

LATEST_QUESTION == "\n\n#khamtham la-sut: "

APOLOGY == "#kho-aphai"

InitPipeline ==
    /\ InitGuardState
    /\ InitIntake
    /\ dedupLog = << >>
    /\ throttleLog = << >>
    /\ \E t \in MessageTexts :
         args = [message_text |-> t, user_id |-> "u1", reply_token |-> "r1"]
    /\ pc = "start"
    /\ prepared_text = ""
    /\ final_text = << >>
    /\ tool_done = FALSE
    /\ resource_exhausted = FALSE
    /\ stream_exc = NoException
    /\ streamed = 0
    /\ msg_obj = Unbound
    /\ chain = << >>
    /\ contextLog = << >>
    /\ memoryLog = << >>
    /\ memory \in Memories

guardAndIntakeVars ==
    <<now, ticks, dedup, DEDUP_CACHE, RUNNING_USERS, dedupLog, throttleLog,
      RUNNER, tasks, calls, response, intakeLog, body_events, handlers>>

(* main.py:492-554.  A text that is not a str has no lower(): the          *)
(* AttributeError of line 509 is outside every try and ends the task.      *)
Prepare ==
    /\ pc = "start"
    /\ \E read_ok \in BOOLEAN :
         LET ctx == build_memory_context(memory, args.user_id, MEMORY_LIMIT,
                                         read_ok)
         IN  /\ contextLog' = Append(contextLog,
                     ContextCall(memory, args.user_id, MEMORY_LIMIT, read_ok, ctx))
             /\ IF args.message_text.kind # "str"
                THEN /\ pc' = "raised"
                     /\ UNCHANGED <<prepared_text, memory, memoryLog>>
                ELSE \E write_ok \in BOOLEAN :
                       LET message_text == args.message_text.s
                           instruction == IF user_ask_flex_of(message_text)
                                          THEN FLEX_INSTRUCTION
                                          ELSE MCP_INSTRUCTION
                       IN  /\ prepared_text' =
                                 IF ctx # ""
                                 THEN ctx \o LATEST_QUESTION \o message_text
                                          \o instruction
                                 ELSE message_text \o instruction
                           /\ memory' = memory_add_message(memory, args.user_id,
                                             "user", message_text, write_ok)
                           /\ memoryLog' = Append(memoryLog,
                                 MemoryCall("user", message_text, write_ok))
                           /\ pc' = "stream"
    /\ UNCHANGED <<args, final_text, tool_done, resource_exhausted, stream_exc,
                   streamed, msg_obj, chain>>
    /\ UNCHANGED guardAndIntakeVars

(* main.py:564-573: one more event of the stream.                          *)
NextEvent ==
    /\ pc = "stream"
    /\ streamed < MaxStreamEvents
    /\ \E event \in StreamEvents :
         /\ streamed' = streamed + 1
         /\ IF event.event_type = "tool_response"
            THEN /\ tool_done' = TRUE
                 /\ pc' = "S0"
                 /\ UNCHANGED final_text
            ELSE /\ final_text' = IF event.final THEN event.text ELSE final_text
                 /\ UNCHANGED <<tool_done, pc>>
    /\ UNCHANGED <<args, prepared_text, contextLog, resource_exhausted, stream_exc,
                   msg_obj, chain, memory, memoryLog>>
    /\ UNCHANGED guardAndIntakeVars

(* main.py:564: the stream is exhausted.                                   *)
StreamEnds ==
    /\ pc = "stream"
    /\ pc' = "S0"
    /\ UNCHANGED <<args, prepared_text, contextLog, final_text, tool_done,
                   resource_exhausted, stream_exc, streamed, msg_obj, chain,
                   memory, memoryLog>>
    /\ UNCHANGED guardAndIntakeVars

(* main.py:574-589: the stream raises.                                     *)
StreamRaises ==
    /\ pc = "stream"
    /\ \E e \in StreamExceptions :
         /\ stream_exc' = e
         /\ resource_exhausted' = resource_exhausted_of(e)
    /\ pc' = "S0"
    /\ UNCHANGED <<args, prepared_text, contextLog, final_text, tool_done, streamed,
                   msg_obj, chain, memory, memoryLog>>
    /\ UNCHANGED guardAndIntakeVars

----------------------------------------------------------------------------
(* The fallback chain, main.py:591-702.  chain records each stage entered: *)
(* S0 when the tool call was observed, S1..S4 when the stage calls its     *)
(* sender, with the request the sender made.                               *)

StageEntry(stage, r) ==
    [stage |-> stage, ok |-> r.ok, called |-> r.called, api |-> r.api,
     replyToken |-> r.replyToken, to |-> r.to, message |-> r.message]

\* a tool observation that pushes a text of its own
ToolDeliveredAndPushed ==
    Sent(TRUE, "push", "", "u1", Message("text", "(sent through MCP)", "", JNull))

ToolDelivered ==
    [ok |-> TRUE, called |-> FALSE, api |-> "", replyToken |-> "", to |-> "",
     message |-> NoMessage]

\* a chain that goes on to the next stage after a success
NeverReturn(ok, next) == next

\* "if ok: ... return", main.py:618-624, 630-636, 662-667, 685-690
ReturnIf(ok, next) == IF ok THEN "done" ELSE next

\* main.py:613 and 625: the parsed object has the shape of a card or a text
ValidFlex(m) ==
    Get(m, "type") = JStr("flex") /\ {"contents", "altText"} \subseteq DOMAIN m.o

ValidText(m) ==
    Get(m, "type") = JStr("text") /\ "text" \in DOMAIN m.o

(* main.py:591-600.                                                        *)
S0_ToolDelivered ==
    /\ pc = "S0"
    /\ IF tool_done
       THEN \E write_ok \in BOOLEAN :
              /\ chain' = Append(chain, StageEntry("S0", ToolDelivered))
              /\ memory' = memory_add_message(memory, args.user_id, "assistant",
                                              "(sent through MCP)", write_ok)
              /\ memoryLog' = Append(memoryLog,
                          MemoryCall("assistant", "(sent through MCP)", write_ok))
              /\ pc' = "done"
       ELSE /\ pc' = "S1"
            /\ UNCHANGED <<chain, memory, memoryLog>>
    /\ UNCHANGED <<args, prepared_text, contextLog, final_text, tool_done,
                   resource_exhausted, stream_exc, streamed, msg_obj>>
    /\ UNCHANGED guardAndIntakeVars

(* main.py:605-642.                                                        *)
S1_ParsedStructured ==
    /\ pc = "S1"
    /\ IF final_text # << >>
       THEN LET m == _try_parse_message_obj(final_text)
            IN  /\ msg_obj' = m
                /\ IF Truthy(m) /\ (ValidFlex(m) \/ ValidText(m))
                   THEN \E http_ok, write_ok \in BOOLEAN :
                          LET r == _fallback_push_line_message(
                                       args.user_id, m, args.reply_token, http_ok)
                              note == IF ValidFlex(m) THEN "(sent Flex message)"
                                      ELSE PyStr(Get(m, "text"))
                          IN  /\ chain' = Append(chain, StageEntry("S1", r))
                              /\ memory' =
                                   IF r.ok
                                   THEN memory_add_message(memory, args.user_id,
                                            "assistant", note, write_ok)
                                   ELSE memory
                              /\ memoryLog' =
                                   IF r.ok
                                   THEN Append(memoryLog,
                                          MemoryCall("assistant", note, write_ok))
                                   ELSE memoryLog
                              /\ pc' = ReturnIf(r.ok, "S2")
                   ELSE /\ pc' = "S2"
                        /\ UNCHANGED <<chain, memory, memoryLog>>
       ELSE /\ pc' = "S2"
            /\ UNCHANGED <<msg_obj, chain, memory, memoryLog>>
    /\ UNCHANGED <<args, prepared_text, contextLog, final_text, tool_done,
                   resource_exhausted, stream_exc, streamed>>
    /\ UNCHANGED guardAndIntakeVars

(* main.py:644-667.                                                        *)
S2_DemoCardOnQuota ==
    /\ pc = "S2"
    /\ IF resource_exhausted /\ user_ask_flex_of(args.message_text.s)
       THEN \E http_ok, write_ok \in BOOLEAN :
              LET r == _send_demo_flex(args.user_id, args.reply_token, http_ok)
              IN  /\ chain' = Append(chain, StageEntry("S2", r))
                  /\ memory' =
                       IF r.ok
                       THEN memory_add_message(memory, args.user_id,
                                "assistant", "(sent demo Flex: quota)", write_ok)
                       ELSE memory
                  /\ memoryLog' =
                       IF r.ok
                       THEN Append(memoryLog,
                              MemoryCall("assistant", "(sent demo Flex: quota)", write_ok))
                       ELSE memoryLog
                  /\ pc' = ReturnIf(r.ok, "S3")
       ELSE /\ pc' = "S3"
            /\ UNCHANGED <<chain, memory, memoryLog>>
    /\ UNCHANGED <<args, prepared_text, contextLog, final_text, tool_done,
                   resource_exhausted, stream_exc, streamed, msg_obj>>
    /\ UNCHANGED guardAndIntakeVars

(* main.py:669-690: _send_demo_flex(user_id), without the reply token.     *)
S3_DemoCardOnUnparsed ==
    /\ pc = "S3"
    /\ IF /\ user_ask_flex_of(args.message_text.s)
          /\ final_text # << >>
          /\ ~Truthy(msg_obj)
       THEN \E http_ok, write_ok \in BOOLEAN :
              LET r == _send_demo_flex(args.user_id, "", http_ok)
              IN  /\ chain' = Append(chain, StageEntry("S3", r))
                  /\ memory' =
                       IF r.ok
                       THEN memory_add_message(memory, args.user_id,
                                "assistant", "(sent demo Flex: no JSON)",
                                write_ok)
                       ELSE memory
                  /\ memoryLog' =
                       IF r.ok
                       THEN Append(memoryLog,
                              MemoryCall("assistant", "(sent demo Flex: no JSON)", write_ok))
                       ELSE memoryLog
                  /\ pc' = ReturnIf(r.ok, "S4")
       ELSE /\ pc' = "S4"
            /\ UNCHANGED <<chain, memory, memoryLog>>
    /\ UNCHANGED <<args, prepared_text, contextLog, final_text, tool_done,
                   resource_exhausted, stream_exc, streamed, msg_obj>>
    /\ UNCHANGED guardAndIntakeVars

\* a last stage that lets the failure of the memory write end the task
S4_RawTextRaising ==
    /\ pc = "S4"
    /\ \E http_ok, write_ok \in BOOLEAN :
         LET text_to_send == IF final_text # << >> THEN Str(final_text)
                             ELSE APOLOGY
             r == _fallback_push_line_text(args.user_id, text_to_send, http_ok)
         IN  /\ chain' = Append(chain, StageEntry("S4", r))
             /\ memory' = memory_add_message(memory, args.user_id, "assistant",
                                             text_to_send, write_ok)
             /\ memoryLog' = Append(memoryLog,
                         MemoryCall("assistant", text_to_send, write_ok))
             /\ pc' = IF write_ok THEN "done" ELSE "raised"
    /\ UNCHANGED <<args, prepared_text, contextLog, final_text, tool_done,
                   resource_exhausted, stream_exc, streamed, msg_obj>>
    /\ UNCHANGED guardAndIntakeVars

(* main.py:692-702.                                                        *)
S4_RawText ==
    /\ pc = "S4"
    /\ \E http_ok, write_ok \in BOOLEAN :
         LET text_to_send == IF final_text # << >> THEN Str(final_text)
                             ELSE APOLOGY
             r == _fallback_push_line_text(args.user_id, text_to_send, http_ok)
         IN  /\ chain' = Append(chain, StageEntry("S4", r))
             /\ memory' = memory_add_message(memory, args.user_id, "assistant",
                                             text_to_send, write_ok)
             /\ memoryLog' = Append(memoryLog,
                         MemoryCall("assistant", text_to_send, write_ok))
    /\ pc' = "done"
    /\ UNCHANGED <<args, prepared_text, contextLog, final_text, tool_done,
                   resource_exhausted, stream_exc, streamed, msg_obj>>
    /\ UNCHANGED guardAndIntakeVars

PipelineNext ==
    \/ Prepare
    \/ NextEvent
    \/ StreamEnds
    \/ StreamRaises
    \/ S0_ToolDelivered
    \/ S1_ParsedStructured
    \/ S2_DemoCardOnQuota
    \/ S3_DemoCardOnUnparsed
    \/ S4_RawText

SpecPipeline == InitPipeline /\ [][PipelineNext]_vars

----------------------------------------------------------------------------
(* Claims about the delivery pipeline, checked under SpecPipeline.         *)

StageNo(stage) ==
    CASE stage = "S0" -> 0
      [] stage = "S1" -> 1
      [] stage = "S2" -> 2
      [] stage = "S3" -> 3
      [] OTHER -> 4

Succeeded == {i \in 1..Len(chain) : chain[i].ok}

OutboundCalls == {i \in 1..Len(chain) : chain[i].called}

(* C4: the chain enters its stages in the order S0, S1, S2, S3, S4; a      *)
(* stage that succeeds is the last one entered and ends the pipeline, so   *)
(* at most one outbound call of a pipeline succeeds.                       *)
C4_InOrderFirstSuccessWins ==
    /\ \A i, j \in 1..Len(chain) :
         i < j => StageNo(chain[i].stage) < StageNo(chain[j].stage)
    /\ \A i \in Succeeded : i = Len(chain) /\ pc = "done"
    /\ Cardinality(Succeeded \cap OutboundCalls) <= 1

\* S1 and S2 failed and S4 then delivered
C4_Witness ==
    /\ pc = "done"
    /\ Len(chain) = 3
    /\ chain[1].stage = "S1" /\ chain[1].called /\ ~chain[1].ok
    /\ chain[2].stage = "S2" /\ chain[2].called /\ ~chain[2].ok
    /\ chain[3].stage = "S4" /\ chain[3].ok

(* How far the pipeline is from returning: the statements left, and       *)
(* within the stream loop the events the stream can still deliver.         *)
StepsLeft ==
    LET left == CASE pc = "start" -> 7
                  [] pc = "stream" -> 6
                  [] pc = "S0" -> 5
                  [] pc = "S1" -> 4
                  [] pc = "S2" -> 3
                  [] pc = "S3" -> 2
                  [] pc = "S4" -> 1
                  [] OTHER -> 0
    IN  left * (MaxStreamEvents + 1) + (MaxStreamEvents - streamed)

(* C5: the pipeline never ends in an escaped exception; every step brings  *)
(* it nearer to its return, so that it returns once the stream has ended   *)
(* or raised and the outbound calls have returned; and when it has         *)
(* returned, either the tool call was observed or it made at least one     *)
(* outbound call.                                                          *)
C5_TerminatesWithoutEscape ==
    /\ [](pc # "raised")
    /\ [][StepsLeft' < StepsLeft]_vars
    /\ [](pc = "done" => (tool_done \/ OutboundCalls # {}))

CardIntent ==
    /\ args.message_text.kind = "str"
    /\ user_ask_flex_of(args.message_text.s)

DemoCardMessage == Message("flex", "", DEMO_ALT_TEXT, demo_contents)

LastEntry == chain[Len(chain)]

(* C8, as stated: when the text has card intent and the stream raised with *)
(* a quota signal in its text, the last thing the finished chain did is an *)
(* outbound call whose message is the demonstration card.                  *)
C8_DemoCardIsFinalAction ==
    ( /\ pc = "done"
      /\ CardIntent
      /\ stream_exc.raised
      /\ (Contains(stream_exc.str, "RESOURCE_EXHAUSTED")
            \/ Contains(stream_exc.str, "429")) )
    => /\ chain # << >>
       /\ LastEntry.called
       /\ LastEntry.message = DemoCardMessage

(* C8, amended: when the text has card intent and the stream raised an     *)
(* exception other than an McpError with a quota signal in its text, then  *)
(* unless S1 delivered a parsed message the finished chain has made, at    *)
(* S2, an outbound call whose message is exactly the demonstration card;   *)
(* the call is the last thing the chain did if it succeeded, and the chain *)
(* went on to a later stage if it failed.                                  *)
C8_DemoCardSentAtS2 ==
    ( /\ pc = "done"
      /\ CardIntent
      /\ stream_exc.raised
      /\ resource_exhausted_of(stream_exc) )
    => \/ chain # << >> /\ chain[1].stage = "S1" /\ chain[1].ok
       \/ \E i \in 1..Len(chain) :
            /\ chain[i].stage = "S2"
            /\ chain[i].called
            /\ chain[i].message = DemoCardMessage
            /\ (chain[i].ok <=> i = Len(chain))

\* the demonstration card went out at S2 after a quota failure, and was last
C8_Witness ==
    /\ pc = "done"
    /\ CardIntent
    /\ stream_exc.raised /\ resource_exhausted_of(stream_exc)
    /\ chain # << >>
    /\ LastEntry.stage = "S2" /\ LastEntry.ok
    /\ LastEntry.message = DemoCardMessage

(* C10: every outbound call of the pipeline is a reply call carrying the   *)
(* pipeline's reply token when the pipeline holds one, and a push call to  *)
(* the user id only when it holds none.                                    *)
C10_CallChosenByReplyToken ==
    \A i \in OutboundCalls :
        IF args.reply_token # ""
        THEN chain[i].api = "reply" /\ chain[i].replyToken = args.reply_token
        ELSE chain[i].api = "push" /\ chain[i].to = args.user_id

(* C11: every message handed to an outbound call is a text message with a  *)
(* text of at most 5000 characters or a card with an alt text of at most   *)
(* 400 characters and a container as contents; and the parsed object that  *)
(* S1 sends has the fields that its declared type requires.                *)
HasRequiredFields(m) ==
    \/ Get(m, "type") = JStr("text") /\ Get(m, "text").kind = "str"
    \/ /\ Get(m, "type") = JStr("flex")
       /\ "altText" \in DOMAIN m.o
       /\ Get(m, "contents").kind = "obj"

C11_MessagesWellFormed ==
    /\ \A i \in OutboundCalls :
         LET m == chain[i].message
         IN  \/ m.type = "text" /\ Len(m.text) <= 5000
             \/ /\ m.type = "flex"
                /\ Len(m.altText) <= 400
                /\ m.contents.kind = "obj"
    /\ \A i \in OutboundCalls :
         chain[i].stage = "S1" => HasRequiredFields(msg_obj)

----------------------------------------------------------------------------
(* More claims about the intake, checked under Spec.                       *)

EntriesOfCall(c) == {i \in 1..Len(intakeLog) : intakeLog[i].call = c}

(* C12: an event whose handling raised is followed in the log by every     *)
(* later event of its body, each handled as any event is, and the response *)
(* of the call is ok when an event of the body was dispatched and ignored  *)
(* when none was, never an error.                                          *)
C12_EventsHandledIndependently ==
    /\ \A i \in 1..Len(intakeLog) :
         intakeLog[i].pos < intakeLog[i].of
            => /\ i < Len(intakeLog)
               /\ intakeLog[i + 1].call = intakeLog[i].call
               /\ intakeLog[i + 1].pos = intakeLog[i].pos + 1
               /\ intakeLog[i + 1].of = intakeLog[i].of
    /\ \A i \in EntriesOfCall(calls) :
         intakeLog[i].outcome = "error"
            => response = IF \E j \in EntriesOfCall(calls) :
                                 intakeLog[j].outcome = "dispatched"
                          THEN "ok" ELSE "ignored"
    /\ \A j \in 1..Len(intakeLog) :
         intakeLog[j].outcome = "dispatched" <=> DispatchedBy(j)

\* an event was dispatched after the handling of an earlier event of its
\* body had raised
C12_Witness ==
    \E i, j \in EntriesOfCall(calls) :
        /\ i < j
        /\ intakeLog[i].outcome = "error"
        /\ intakeLog[j].outcome = "dispatched"
        /\ response = "ok"

(* C15: when the body parses but its events is missing or is no list, the  *)
(* call treats the event list as empty: it answers "ignored" and           *)
(* dispatches nothing.  The code meets this for a missing events, a string *)
(* and an object, and raises TypeError for null and for a number.          *)
NotAList == {"missing", "null", "number", "string", "dict"}

C15_NonListEventsIgnored ==
    body_events \in NotAList
       => /\ response = "ignored"
          /\ TasksOfCall(calls) = {}

(* The part of C15 the code meets: a body whose events is missing, a       *)
(* string or an object is answered "ignored" and dispatches nothing.       *)
C15_IterableNonListIgnored ==
    body_events \in {"missing", "string", "dict"}
       => /\ response = "ignored"
          /\ TasksOfCall(calls) = {}

C15_FailingInput ==
    /\ body_events = "null"
    /\ response = "server_error"

----------------------------------------------------------------------------
(* Claims about the response interpreter, checked under SpecPipeline,      *)
(* whose stream draws the final text and whose stage S1 parses it.         *)

(* The JSON value of the first fenced block of the text: a fence, an       *)
(* optional "json", a newline, one JSON value, a newline, a fence.         *)
FencedValues(toks) ==
    {h \in 1..Len(toks) :
        /\ h >= 3 /\ h + 2 <= Len(toks)
        /\ toks[h].tok = "json"
        /\ toks[h - 1].tok = "nl" /\ toks[h + 1].tok = "nl"
        /\ toks[h + 2].tok = "fence"
        /\ \/ toks[h - 2].tok = "fence"
           \/ h >= 4 /\ toks[h - 2] = LANG /\ toks[h - 3].tok = "fence"
        /\ \A k \in 1..(h - 2) : toks[k].tok = "fence" => k >= h - 3}

(* The JSON value that starts at the first brace of the text and runs to   *)
(* its end: only prose and newlines before it, only newlines after it.     *)
BareValues(toks) ==
    {h \in 1..Len(toks) :
        /\ toks[h].tok = "json"
        /\ SubSeq(toks[h].s, 1, 1) = "{"
        /\ \A k \in 1..(h - 1) : ~Contains(toks[k].s, "{")
        /\ \A k \in (h + 1)..Len(toks) : toks[k].tok = "nl"}

(* The unwrapping rule: the nested message object, else the object itself  *)
(* when it has a type field.                                               *)
Unwraps(v) ==
    /\ v.kind = "obj"
    /\ \/ "message" \in DOMAIN v.o /\ v.o["message"].kind = "obj"
       \/ "type" \in DOMAIN v.o

Unwrapped(v) ==
    IF "message" \in DOMAIN v.o /\ v.o["message"].kind = "obj"
    THEN v.o["message"] ELSE v

(* C13: once stage S1 has parsed the final text, the result is the         *)
(* unwrapping of the object in the text's first fenced block when there is *)
(* one; otherwise the unwrapping of the object that starts at the first    *)
(* brace and runs to the end of the text, prose before it or not; and      *)
(* nothing when the text has no brace.                                     *)
C13_RulesInOrder ==
    msg_obj # Unbound =>
       LET fenced == {h \in FencedValues(final_text) : Unwraps(final_text[h].v)}
           bare == {h \in BareValues(final_text) : Unwraps(final_text[h].v)}
       IN  /\ \A h \in fenced : msg_obj = Unwrapped(final_text[h].v)
           /\ fenced = {} =>
                \A h \in bare : msg_obj = Unwrapped(final_text[h].v)
           /\ (\A k \in 1..Len(final_text) : ~Contains(final_text[k].s, "{"))
                 => msg_obj = JNull

C13_Witness ==
    /\ msg_obj = FlexMsg
    /\ final_text[1].tok = "prose"
    /\ BareValues(final_text) = {2}
    /\ FencedValues(final_text) = {}

C13_WitnessFenced ==
    /\ msg_obj = TextMsg
    /\ final_text[1].tok = "prose"
    /\ FencedValues(final_text) # {}


(* C16: whenever the response interpreter returns an object, the object    *)
(* has a type field, an object unwrapped from a nested message field       *)
(* included.                                                               *)
C16_ReturnedObjectHasType ==
    (msg_obj # Unbound /\ msg_obj # JNull) => "type" \in DOMAIN msg_obj.o

(* The part of C16 the code meets: an object returned as it stands, not    *)
(* unwrapped from a message field, has a type field.                       *)
C16_DirectObjectHasType ==
    (msg_obj # Unbound /\ msg_obj # JNull) =>
        \/ "type" \in DOMAIN msg_obj.o
        \/ \E k \in 1..Len(final_text) :
              /\ final_text[k].tok = "json"
              /\ final_text[k].v.kind = "obj"
              /\ "message" \in DOMAIN final_text[k].v.o
              /\ final_text[k].v.o["message"] = msg_obj

C16_FailingInput ==
    /\ msg_obj = JObj([text |-> JStr("hello")])
    /\ pc = "done"


----------------------------------------------------------------------------
(* More claims about the fallback chain, checked under SpecPipeline.       *)

Entered(stage) == \E i \in 1..Len(chain) : chain[i].stage = stage

ReachedS4 == pc = "S4" \/ Entered("S4")

\* S1 ran on a final text and got no valid text or card out of it
NoValidStructured ==
    /\ final_text # << >>
    /\ msg_obj # Unbound
    /\ ~(Truthy(msg_obj) /\ (ValidFlex(msg_obj) \/ ValidText(msg_obj)))

(* C17: when the text has card intent, a final text is present, S0 did not *)
(* fire and S1 got no valid structured message out of the text, because it *)
(* did not parse or because it parsed into an object that is no valid text *)
(* or card, the chain attempts the demonstration card at S3 before it      *)
(* falls back to the raw text at S4.                                       *)
C17_DemoCardBeforeRawText ==
    (CardIntent /\ ~tool_done /\ NoValidStructured /\ ReachedS4)
        => Entered("S3")

(* The part of C17 the code meets: the demonstration card is attempted     *)
(* when the final text yielded no object, or an empty one.                 *)
C17_DemoCardWhenUnparsed ==
    (CardIntent /\ ~tool_done /\ NoValidStructured /\ ~Truthy(msg_obj)
        /\ ReachedS4)
        => Entered("S3")

C17_FailingInput ==
    /\ CardIntent /\ ~tool_done /\ NoValidStructured
    /\ msg_obj = JObj([type |-> JStr("flex"), altText |-> JStr("menu card")])
    /\ Entered("S4") /\ ~Entered("S3")


\* what one memory_add_message may leave in the table: the write is lost
\* when the INSERT raises (main.py:221-223)
AfterAdd(mem, role, str) ==
    {mem, Append(mem, Turn(args.user_id, role, str))}

RawOrApology == IF final_text # << >> THEN Str(final_text) ELSE APOLOGY

(* C19 as stated: the step taken at S4 makes one outbound call, a text     *)
(* message whose body is the raw final text if there is one and else the   *)
(* apology, adds that text to the memory as an assistant turn whether or   *)
(* not the call succeeded, and ends the pipeline.                          *)
C19_RawTextSentAndRecorded ==
    [][ pc = "S4" =>
          /\ pc' = "done"
          /\ Len(chain') = Len(chain) + 1
          /\ chain'[Len(chain')].stage = "S4"
          /\ chain'[Len(chain')].called
          /\ chain'[Len(chain')].message = Message("text", RawOrApology, "", JNull)
          /\ memory' \in AfterAdd(memory, "assistant", RawOrApology)
      ]_vars

(* C19 as the code has it: the body of the message is the first 5000       *)
(* characters of that text, and the turn recorded is the whole text.       *)
C19_CutTextSentWholeRecorded ==
    [][ pc = "S4" =>
          /\ pc' = "done"
          /\ Len(chain') = Len(chain) + 1
          /\ chain'[Len(chain')].stage = "S4"
          /\ chain'[Len(chain')].called
          /\ chain'[Len(chain')].api = "push"
          /\ chain'[Len(chain')].message =
                Message("text", Prefix(RawOrApology, 5000), "", JNull)
          /\ memory' \in AfterAdd(memory, "assistant", RawOrApology)
      ]_vars

C19_Witness ==
    /\ pc = "done"
    /\ Entered("S4")
    /\ ~LastEntry.ok
    /\ Len(RawOrApology) > 5000
    /\ Len(LastEntry.message.text) = 5000
    /\ memory # << >>
    /\ memory[Len(memory)] = Turn(args.user_id, "assistant", RawOrApology)

----------------------------------------------------------------------------
(* Claims about the context builder, read off contextLog under             *)
(* SpecPipeline, whose stored turns number none, two or more than the      *)
(* limit.                                                                  *)

\* the user's stored turns at a call, oldest first, and the limit most recent
StoredTurns(e) == SelectSeq(e.mem, LAMBDA r : r.user_id = e.user_id)

RecentTurns(e) ==
    LET mine == StoredTurns(e)
    IN  [i \in 1..e.limit |-> mine[Len(mine) - e.limit + i]]

RoleLabel(role) == IF lower(role) = "user" THEN "#phuchai" ELSE "#bot"

\* the lines joined with newlines under the header
UnderHeader(lines) ==
    CTX_HEADER \o
    Join("\n", lines)

\* the turns with a text, in order
WithText(turns) == SelectSeq(turns, LAMBDA r : r.text # "")

\* a turn's text as the output shows it: cut after 300 characters and marked
Shown(str) ==
    IF Len(strip(str)) > 300 THEN Prefix(strip(str), 300) \o "..."
    ELSE strip(str)

(* C14 as stated: a call that reads the store returns nothing when the     *)
(* user has no stored turn, and with more than limit stored turns returns  *)
(* exactly the limit most recent turns, oldest first, each turn's text at  *)
(* most 300 characters long in the output.                                 *)
C14_ExactlyLimitTurnsOf300 ==
    [][ contextLog' # contextLog =>
          LET e == contextLog'[Len(contextLog')]
              recent == RecentTurns(e)
          IN  e.read_ok =>
                /\ StoredTurns(e) = << >> => e.ctx = ""
                /\ Len(StoredTurns(e)) > e.limit =>
                     e.ctx = UnderHeader(
                                [i \in 1..e.limit |->
                                    RoleLabel(recent[i].role) \o ": "
                                       \o Prefix(strip(recent[i].text), 300)])
      ]_vars

(* C14 as the code has it: a call that cannot read the store, or finds no  *)
(* stored turn, returns nothing; with more than limit stored turns it      *)
(* returns those of the limit most recent turns that have a text, oldest   *)
(* first, each text cut after 300 characters and then marked with "...",   *)
(* and nothing when none of them has a text.                               *)
C14_RecentTurnsWithText ==
    [][ contextLog' # contextLog =>
          LET e == contextLog'[Len(contextLog')]
          IN  /\ ~e.read_ok => e.ctx = ""
              /\ StoredTurns(e) = << >> => e.ctx = ""
              /\ (e.read_ok /\ Len(StoredTurns(e)) > e.limit) =>
                   LET shown == WithText(RecentTurns(e))
                   IN  e.ctx = IF shown = << >> THEN ""
                               ELSE UnderHeader(
                                       [i \in 1..Len(shown) |->
                                           RoleLabel(shown[i].role) \o ": "
                                              \o Shown(shown[i].text)])
      ]_vars

C14_Witness ==
    \E n \in 1..Len(contextLog) :
        LET e == contextLog[n]
        IN  /\ e.read_ok
            /\ Len(StoredTurns(e)) > e.limit
            /\ \E i \in 1..e.limit : Len(RecentTurns(e)[i].text) > 300
            /\ \E i \in 1..e.limit : RecentTurns(e)[i].text = ""
            /\ e.ctx # ""

----------------------------------------------------------------------------
(* A claim about the dedup guard, checked under SpecDedup.                 *)

\* the record of key k changed or appeared in store m
Written(m, n, k) ==
    /\ k \in DOMAIN n
    /\ k \notin DOMAIN m \/ n[k] # m[k]

\* store m holds a record of key k that has not expired at time t
Live(m, k, t) == k \in DOMAIN m /\ (t - m[k]) <= DEDUP_TTL_SECONDS

(* C20: a check that answers duplicate leaves the key's record as it was;  *)
(* a record's timestamp is written only by a check of its key that answers *)
(* not-duplicate, which happens when the answering store holds no record   *)
(* of the key or an expired one; so no check answers duplicate once        *)
(* DEDUP_TTL_SECONDS have passed since the key's last not-duplicate        *)
(* answer, however many duplicate answers came in between.                 *)
C20_DuplicateLeavesTimestamp ==
    /\ [](\A j \in 1..Len(dedupLog) :
            dedupLog[j].dup =>
               /\ EarlierNew(j) # {}
               /\ dedupLog[j].t - dedupLog[MaxOf(EarlierNew(j))].t
                     <= DEDUP_TTL_SECONDS)
    /\ [][ IF Len(dedupLog') > Len(dedupLog)
           THEN LET e == dedupLog'[Len(dedupLog')]
                    before == IF e.store = "db" THEN dedup ELSE DEDUP_CACHE
                    after == IF e.store = "db" THEN dedup' ELSE DEDUP_CACHE'
                IN  /\ e.dup <=> Live(before, e.key, e.t)
                    /\ e.dup => /\ e.key \in DOMAIN after
                                /\ after[e.key] = before[e.key]
                    /\ ~e.dup => /\ e.key \in DOMAIN after
                                 /\ after[e.key] = e.t
                    /\ \A k \in GuardKeys :
                         /\ Written(before, after, k) => k = e.key /\ ~e.dup
                         /\ ~Written(IF e.store = "db" THEN DEDUP_CACHE ELSE dedup,
                                     IF e.store = "db" THEN DEDUP_CACHE' ELSE dedup',
                                     k)
           ELSE \A k \in GuardKeys :
                   ~Written(dedup, dedup', k) /\ ~Written(DEDUP_CACHE, DEDUP_CACHE', k)
       ]_vars

(* A key checked four times against the table: new, duplicate at once,     *)
(* duplicate again DEDUP_TTL_SECONDS later, new one second after that.     *)
C20_Witness ==
    \E i, j, k, l \in 1..Len(dedupLog) :
        /\ i < j /\ j < k /\ k < l
        /\ \A n \in {i, j, k, l} :
              dedupLog[n].key = dedupLog[i].key /\ dedupLog[n].store = "db"
        /\ ~dedupLog[i].dup /\ dedupLog[j].dup /\ dedupLog[k].dup
        /\ ~dedupLog[l].dup
        /\ dedupLog[k].t - dedupLog[i].t = DEDUP_TTL_SECONDS
        /\ dedupLog[l].t - dedupLog[i].t > DEDUP_TTL_SECONDS
        /\ dedup[dedupLog[l].key] = dedupLog[l].t

----------------------------------------------------------------------------
(* A claim about the throttle guard, checked under SpecThrottle.           *)

(* C21: a check that rejects a user leaves the user's record in            *)
(* RUNNING_USERS as it was, so that rejected checks never move the window; *)
(* a record is written only by a check that admits its user, with the time *)
(* of that check; and RUNNING_USERS holds one time per user.               *)
C21_RejectionLeavesRecord ==
    /\ [](\A u \in DOMAIN RUNNING_USERS :
            /\ u \in Users
            /\ \E j \in 1..Len(throttleLog) :
                  /\ throttleLog[j].user = u
                  /\ ~throttleLog[j].throttled
                  /\ throttleLog[j].t = RUNNING_USERS[u])
    /\ [][ IF Len(throttleLog') > Len(throttleLog)
           THEN LET e == throttleLog'[Len(throttleLog')]
                IN  /\ e.throttled =>
                          /\ e.user \in DOMAIN RUNNING_USERS
                          /\ e.user \in DOMAIN RUNNING_USERS'
                          /\ RUNNING_USERS'[e.user] = RUNNING_USERS[e.user]
                    /\ ~e.throttled =>
                          /\ e.user \in DOMAIN RUNNING_USERS'
                          /\ RUNNING_USERS'[e.user] = e.t
                    /\ \A u \in Users :
                          Written(RUNNING_USERS, RUNNING_USERS', u)
                             => u = e.user /\ ~e.throttled
           ELSE \A u \in Users : ~Written(RUNNING_USERS, RUNNING_USERS', u)
       ]_vars

(* A user admitted, then rejected three times, the last rejection at the   *)
(* very end of the window: the record still holds the time of admission.   *)
C21_Witness ==
    \E i, j, k \in 1..Len(throttleLog) :
        /\ i < j /\ j < k
        /\ \A n \in {i, j, k} : throttleLog[n].user = throttleLog[i].user
        /\ ~throttleLog[i].throttled
        /\ throttleLog[j].throttled /\ throttleLog[k].throttled
        /\ throttleLog[k].t - throttleLog[i].t = RUNNING_TTL_SECONDS
        /\ throttleLog[i].user \in DOMAIN RUNNING_USERS
        /\ RUNNING_USERS[throttleLog[i].user] = throttleLog[i].t

----------------------------------------------------------------------------
(* More claims about the dedup guard, checked under SpecDedup.  The checks *)
(* logged, with their keys and times, are replayed through each of the two *)
(* paths alone, from an empty table and an empty cache.                    *)

\* the answers of the checks of log when the table fails every time
RECURSIVE ReplayMemory(_, _)
ReplayMemory(log, cache) ==
    IF log = << >> THEN << >>
    ELSE LET r == _dedup_seen_db(EmptyMap, cache, Head(log).key, Head(log).t, TRUE)
         IN  <<r.ret>> \o ReplayMemory(Tail(log), r.cache)

\* the answers of the checks of log when the table never fails
RECURSIVE ReplayTable(_, _)
ReplayTable(log, rows) ==
    IF log = << >> THEN << >>
    ELSE LET r == _dedup_seen_db(rows, EmptyMap, Head(log).key, Head(log).t, FALSE)
         IN  <<r.ret>> \o ReplayTable(Tail(log), r.rows)

Answers(log) == [j \in 1..Len(log) |-> log[j].dup]

ServedBy(store) == \A j \in 1..Len(dedupLog) : dedupLog[j].store = store

(* C22: a check that finds the table failing is answered by the in-memory  *)
(* cache, and the two paths have the same semantics: any sequence of       *)
(* checks and clock advances gets the same answers from the cache alone as *)
(* from the table alone, the check made exactly DEDUP_TTL_SECONDS after a  *)
(* sighting included; and a run served by one path alone gets those        *)
(* answers.                                                                *)
C22_PathsAnswerAlike ==
    /\ ReplayMemory(dedupLog, EmptyMap) = ReplayTable(dedupLog, EmptyMap)
    /\ ServedBy("mem") => Answers(dedupLog) = ReplayTable(dedupLog, EmptyMap)
    /\ ServedBy("db") => Answers(dedupLog) = ReplayMemory(dedupLog, EmptyMap)

(* A key checked three times with the table failing: new, duplicate        *)
(* exactly DEDUP_TTL_SECONDS later, new again one second after that.       *)
C22_Witness ==
    /\ ServedBy("mem")
    /\ \E i, j, k \in 1..Len(dedupLog) :
        /\ i < j /\ j < k
        /\ dedupLog[i].key = dedupLog[j].key /\ dedupLog[j].key = dedupLog[k].key
        /\ ~dedupLog[i].dup /\ dedupLog[j].dup /\ ~dedupLog[k].dup
        /\ dedupLog[j].t - dedupLog[i].t = DEDUP_TTL_SECONDS
        /\ dedupLog[k].t - dedupLog[j].t = 1

(* Checks i and j, in this order, are of one key, not more than the TTL    *)
(* apart, and both answered not-duplicate.                                 *)
BothNewWithinTtl(i, j) ==
    /\ i < j
    /\ dedupLog[i].key = dedupLog[j].key
    /\ ~dedupLog[i].dup /\ ~dedupLog[j].dup
    /\ dedupLog[j].t - dedupLog[i].t <= DEDUP_TTL_SECONDS

(* C28 as stated: whichever store answers each check, no two checks of one *)
(* key made within the TTL of each other both report not-duplicate.        *)
C28_NoTwoNewWithinTtl ==
    \A i, j \in 1..Len(dedupLog) : ~BothNewWithinTtl(i, j)

(* C28, amended: whatever the pattern of failures of the table between the *)
(* checks, no two checks of one key answered by the same store within the  *)
(* TTL of each other both report not-duplicate; two checks that both       *)
(* report not-duplicate within the TTL were answered by different stores.  *)
C28_NoTwoNewWithinTtlPerStore ==
    \A i, j \in 1..Len(dedupLog) :
        BothNewWithinTtl(i, j) => dedupLog[i].store # dedupLog[j].store

(* The table fails between two checks that it answers: the key is new to   *)
(* the table, new to the map one second later, and duplicate afterwards in *)
(* the table and in the map.                                               *)
C28_Witness ==
    /\ Len(dedupLog) = 4
    /\ \A i \in 2..4 : dedupLog[i].key = dedupLog[1].key
    /\ dedupLog[1].store = "db" /\ ~dedupLog[1].dup
    /\ dedupLog[2].store = "mem" /\ ~dedupLog[2].dup
    /\ dedupLog[2].t - dedupLog[1].t = 1
    /\ dedupLog[3].store = "db" /\ dedupLog[3].dup
    /\ dedupLog[4].store = "mem" /\ dedupLog[4].dup
    /\ dedupLog[4].t - dedupLog[2].t = DEDUP_TTL_SECONDS

(***************************************************************************)
(* More claims about the intake, checked under Spec.                       *)
(***************************************************************************)

(* The event of entry i passed the dedup check and was then skipped by the *)
(* throttle or for its missing reply token.                                *)
SkippedAfterDedup(i) == intakeLog[i].outcome \in {"throttled", "no_token"}

(* The store that answered the check of entry i still holds its key.       *)
MarkedSeen(i) ==
    /\ intakeLog[i].store = "db" => intakeLog[i].key \in DOMAIN dedup
    /\ intakeLog[i].store = "mem" => intakeLog[i].key \in DOMAIN DEDUP_CACHE

StageDue(stage) ==
    LET m == msg_obj
        user_ask_flex == user_ask_flex_of(args.message_text.s)
    IN  CASE stage = "S1" ->
               final_text # << >> /\ Truthy(m) /\ (ValidFlex(m) \/ ValidText(m))
          [] stage = "S2" -> resource_exhausted /\ user_ask_flex
          [] stage = "S3" -> user_ask_flex /\ final_text # << >> /\ ~Truthy(m)
          [] stage = "S4" -> TRUE

DueStages == SelectSeq(<<"S1", "S2", "S3", "S4">>, StageDue)

(* The request a stage makes, given the answer of the messaging API.       *)
StageCall(stage, http_ok) ==
    CASE stage = "S1" ->
           _fallback_push_line_message(args.user_id, msg_obj,
                                       args.reply_token, http_ok)
      [] stage = "S2" -> _send_demo_flex(args.user_id, args.reply_token, http_ok)
      [] stage = "S3" -> _send_demo_flex(args.user_id, "", http_ok)
      [] stage = "S4" ->
           _fallback_push_line_text(args.user_id,
               IF final_text # << >> THEN Str(final_text) ELSE APOLOGY, http_ok)

(* The stages entered and the requests made are those that the backend's   *)
(* outcome and the answers of the messaging API give: each entry is what   *)
(* its stage sends when the API answers as the entry says it did.          *)
ChainByOutcome ==
    IF tool_done
    THEN chain = <<StageEntry("S0", ToolDelivered)>>
    ELSE LET due == DueStages
         IN  /\ Len(chain) \in 1..Len(due)
             /\ \A i \in 1..Len(chain) :
                  /\ chain[i].stage = due[i]
                  /\ chain[i] = StageEntry(due[i], StageCall(due[i], chain[i].ok))
             /\ \A i \in 1..(Len(chain) - 1) : ~chain[i].ok
             /\ chain[Len(chain)].ok \/ Len(chain) = Len(due)

(* C24: failures of the conversation memory are swallowed. Whether the     *)
(* read of the context and the writes of the turns succeed or fail, a      *)
(* pipeline that has ended entered the stages and made the requests that   *)
(* the backend's outcome and the answers of the messaging API alone give;  *)
(* no failure of the memory ends the task with an exception (the one       *)
(* exception that escapes is that of a text without lower()), and every    *)
(* step brings the pipeline nearer to its end.                             *)
C24_MemoryFailuresSwallowed ==
    /\ [](pc = "raised" => args.message_text.kind # "str")
    /\ [](pc = "done" => ChainByOutcome)
    /\ [][StepsLeft' < StepsLeft]_vars

(* The read of the context failed and so did every write (the memory is as *)
(* it was found), and the pipeline went through S3 to the end of S4.       *)
C24_Witness ==
    /\ pc = "done"
    /\ Len(contextLog) = 1
    /\ ~contextLog[1].read_ok
    /\ contextLog[1].mem # << >>
    /\ memory = contextLog[1].mem
    /\ Entered("S3") /\ Entered("S4")

(* No INSERT of the conversation memory failed in this pipeline.           *)
StoreDidNotFail == \A i \in 1..Len(memoryLog) : memoryLog[i].ok

(* C25: a pipeline writes the inbound text as a user turn before it opens  *)
(* the backend's stream and writes no other turn until the chain ends; a   *)
(* pipeline that has ended its chain, at whichever stage, has written      *)
(* exactly one assistant turn after it, never none and never two; when no  *)
(* write failed, the user's log is the log found followed by these two.    *)
C25_OneUserThenOneAssistantTurn ==
    /\ Len(memoryLog) <= 2
    /\ Len(memoryLog) >= 1 =>
          /\ memoryLog[1].role = "user"
          /\ memoryLog[1].text = args.message_text.s
    /\ Len(memoryLog) = 2 => memoryLog[2].role = "assistant"
    /\ pc \in {"stream", "S0", "S1", "S2", "S3", "S4"} => Len(memoryLog) = 1
    /\ pc = "done" => Len(memoryLog) = 2
    /\ (pc = "done" /\ StoreDidNotFail) =>
          memory = contextLog[1].mem
                     \o <<Turn(args.user_id, "user", memoryLog[1].text),
                          Turn(args.user_id, "assistant", memoryLog[2].text)>>

(* No write failed; the parsed message could not be sent at S1 and the     *)
(* chain ended at S4, which wrote the one assistant turn.                  *)
C25_Witness ==
    /\ pc = "done"
    /\ StoreDidNotFail
    /\ Len(memory) = Len(contextLog[1].mem) + 2
    /\ Len(chain) >= 2
    /\ chain[1].stage = "S1" /\ ~chain[1].ok
    /\ chain[Len(chain)].stage = "S4"
    /\ memory[Len(memory)].role = "assistant"
    /\ memory[Len(memory) - 1].role = "user"

(* The places in chain of the reply calls that carried the token.          *)
ReplyCalls(token) ==
    {i \in 1..Len(chain) :
        chain[i].called /\ chain[i].api = "reply" /\ chain[i].replyToken = token}

(* C26: a pipeline makes at most one call of the reply endpoint with its   *)
(* reply token, whatever the stages it goes through and whether or not an  *)
(* earlier reply failed.                                                   *)
C26_ReplyTokenUsedOnce == Cardinality(ReplyCalls(args.reply_token)) <= 1

(* The stream gave a final text with a valid message and then raised the   *)
(* quota error; the text asked for a card. S1 replied with the token and   *)
(* the call failed; S2 replied with the same token.                        *)
C26_FailingInput ==
    /\ resource_exhausted
    /\ Len(chain) >= 2
    /\ chain[1].stage = "S1" /\ chain[1].api = "reply" /\ ~chain[1].ok
    /\ chain[2].stage = "S2" /\ chain[2].api = "reply"
    /\ chain[2].replyToken = chain[1].replyToken
    /\ chain[1].replyToken = args.reply_token

(***************************************************************************)
(* Concurrent calls of the endpoint. uvicorn.run(app, ...) serves the      *)
(* application in one process on one event loop (main.py:933) and the      *)
(* program starts no thread and holds no lock. A coroutine gives up the    *)
(* loop only at an await; webhook has one, await request.json()            *)
(* (main.py:424), and it comes before the first use of the maps; the       *)
(* guards are plain functions. So several calls can be suspended at the    *)
(* await at once and are resumed in any order, and each one, once resumed, *)
(* runs its loop over the events to the response in one piece.             *)
(***************************************************************************)
(* The events that reach the two guards under a user id of their own.      *)
TextEvents == {ev \in Events : IsTextMessage(ev) /\ ev.userId # ""}

RECURSIVE EventsHeld(_)
EventsHeld(hs) ==
    IF hs = << >>
    THEN 0
    ELSE Len(Head(hs).body.events) + EventsHeld(Tail(hs))

(* main.py:422-424: a call arrives and waits for its body; call is the     *)
(* number of the response it was resumed for, 0 while it is suspended.     *)
Arrive ==
    /\ Len(handlers) < MaxCalls
    /\ \E es \in SeqsUpTo(TextEvents, MaxDeliveries - EventsHeld(handlers)) :
         /\ es # << >>
         /\ handlers' = Append(handlers, [body |-> ListBody(es), call |-> 0])
    /\ UNCHANGED <<now, ticks, dedup, DEDUP_CACHE, RUNNING_USERS, RUNNER,
                   tasks, calls, response, intakeLog, body_events, dedupLog,
                   throttleLog>>
    /\ UNCHANGED pipeVars

\* a call that checks against maps of its own instead of the shared ones
ResumeWith(h, running, cache) ==
    /\ handlers[h].call = 0
    /\ LET b == handlers[h].body
       IN  \E fails \in FailPatterns(b.events) :
             LET st == ScanEvents(b.events, fails, 1,
                           IntakeState(dedup, cache, running, RUNNER, tasks,
                                       intakeLog, FALSE),
                           calls + 1, now)
             IN  /\ dedup' = st.rows
                 /\ DEDUP_CACHE' = st.cache
                 /\ RUNNING_USERS' = st.running
                 /\ RUNNER' = st.runner
                 /\ tasks' = st.tasks
                 /\ intakeLog' = st.log
                 /\ response' = ResponseOf(st.has_accepted)
                 /\ calls' = calls + 1
                 /\ body_events' = BodyEvents(b)
    /\ handlers' = [handlers EXCEPT ![h].call = calls + 1]

ResumeOnStaleMaps(h) == ResumeWith(h, EmptyMap, EmptyMap)

(* main.py:424-477: the body of a suspended call has come, the call runs   *)
(* to its response.                                                        *)
ResumeHandler(h) ==
    /\ handlers[h].call = 0
    /\ Answer(handlers[h].body)
    /\ handlers' = [handlers EXCEPT ![h].call = calls + 1]

Resume ==
    /\ \E h \in 1..Len(handlers) : ResumeHandler(h)
    /\ UNCHANGED <<now, ticks, dedupLog, throttleLog>>
    /\ UNCHANGED pipeVars

ConcurrentTick ==
    /\ \E d \in Steps : Tick(d)
    /\ UNCHANGED <<dedup, DEDUP_CACHE, RUNNING_USERS, dedupLog, throttleLog>>
    /\ UNCHANGED intakeVars
    /\ UNCHANGED pipeVars

(* The dispatched tasks run on the same loop but never use the two maps    *)
(* (main.py:479-702), so their steps are left out here.                    *)
ConcurrentNext == Arrive \/ Resume \/ ConcurrentTick

SpecConcurrent == Init /\ [][ConcurrentNext]_vars

(* The throttle admitted the event of entry e; the dedup check of entry e  *)
(* answered not-duplicate.                                                 *)
ThrottleAdmitted(e) == e.outcome \in {"no_token", "dispatched"}

NotDuplicate(e) == e.outcome \in {"throttled", "no_token", "dispatched"}

(* C23: whatever the order in which concurrent calls of the endpoint are   *)
(* resumed, no two throttle checks of one user within RUNNING_TTL_SECONDS  *)
(* of each other both admit, and no two checks of one key answered by the  *)
(* in-process map within DEDUP_TTL_SECONDS of each other both report       *)
(* not-duplicate: each purge-check-insert runs as if under a lock.         *)
C23_ChecksMutuallyExclusive ==
    \A i, j \in 1..Len(intakeLog) :
        i < j =>
          LET a == intakeLog[i]
              c == intakeLog[j]
          IN  /\ (/\ ThrottleAdmitted(a) /\ ThrottleAdmitted(c)
                  /\ a.user = c.user)
                    => c.t - a.t > RUNNING_TTL_SECONDS
              /\ (/\ a.store = "mem" /\ c.store = "mem"
                  /\ NotDuplicate(a) /\ NotDuplicate(c)
                  /\ a.key = c.key)
                    => c.t - a.t > DEDUP_TTL_SECONDS

(* Two calls were suspended together and the later one was resumed first;  *)
(* the earlier one, resumed within both windows, had its event found       *)
(* throttled, and another of its events found duplicate in the map.        *)
C23_Witness ==
    /\ Len(handlers) = 2
    /\ handlers[1].call = 2 /\ handlers[2].call = 1
    /\ \E i, j, k \in 1..Len(intakeLog) :
         /\ intakeLog[i].call = 1 /\ intakeLog[j].call = 2
         /\ intakeLog[k].call = 2
         /\ intakeLog[i].store = "mem" /\ ThrottleAdmitted(intakeLog[i])
         /\ intakeLog[j].store = "mem"
         /\ intakeLog[j].key = intakeLog[i].key
         /\ intakeLog[j].outcome = "duplicate"
         /\ intakeLog[k].user = intakeLog[i].user
         /\ intakeLog[k].outcome = "throttled"
         /\ intakeLog[k].t - intakeLog[i].t = RUNNING_TTL_SECONDS

============================================================================
